---- MODULE Spec2Model ----
(***************************************************************************)
(* A model of the lecture-notes organizer: the GeminiService chat service, *)
(* the PDF text extraction of lib/pdf-utils, the upload modal, the         *)
(* dashboard filter and the protected routes.                              *)
(*                                                                         *)
(* Strings are sequences of one-character strings, so that toLowerCase,    *)
(* trim, includes and substring are computed as the code computes them.    *)
(* The fixed text of a template literal or of a thrown message is carried  *)
(* as one symbol of such a sequence.                                       *)
(***************************************************************************)
EXTENDS Integers, Sequences, FiniteSets, TLC

\* null, as a value that compares with strings
NULL == <<"<null>">>

Min(a, b) == IF a < b THEN a ELSE b

(***************************************************************************)
(* String primitives of the JavaScript runtime.                            *)
(***************************************************************************)
\* String.prototype.includes
Includes(s, k) ==
    \E i \in 0..(Len(s) - Len(k)) : SubSeq(s, i + 1, i + Len(k)) = k

\* The characters \s matches
IsSpace(c) == c \in {" ", "\n", "\t"}

RECURSIVE TrimStart(_)
TrimStart(s) ==
    IF s # <<>> /\ IsSpace(Head(s)) THEN TrimStart(Tail(s)) ELSE s

RECURSIVE TrimEnd(_)
TrimEnd(s) ==
    IF s # <<>> /\ IsSpace(s[Len(s)]) THEN TrimEnd(SubSeq(s, 1, Len(s) - 1)) ELSE s

\* String.prototype.trim
Trim(s) == TrimEnd(TrimStart(s))

\* String.prototype.substring(from, to), 0-based, to exclusive
Substring(s, from, to) == SubSeq(s, from + 1, Min(to, Len(s)))

\* s.replace(/\s+/g, ' '): every maximal run of whitespace becomes one space
\* (the first character of a run becomes the space, the others, marked "",
\* are dropped)
CollapseSpaces(s) ==
    SelectSeq([i \in 1..Len(s) |->
                  IF ~IsSpace(s[i]) THEN s[i]
                  ELSE IF i = 1 \/ ~IsSpace(s[i - 1]) THEN " " ELSE ""],
              LAMBDA ch : ch # "")

(***************************************************************************)
(* GeminiService (lib/gemini-service)                                      *)
(***************************************************************************)
maxHistoryLength == 10
MAX_CHARS == 60000
maxContentLength == 30000
retryContentLength == 10000

\* Bound on the number of chat calls started in one run
MaxChats == 6

\* The slots of the chat calls that may be in flight at the same time; a new
\* call takes the first free slot
Callers == {"c1", "c2"}

FirstFree(c, cs) == c = "c2" => cs["c1"].pc # "idle"

\* Texts handed to setPDFContent: empty, blank, plain, and one to normalize
PdfTexts ==
    { <<>>, <<" ", "\n">>, <<"d", "o", "c">>, <<" ", "a", " ", "\n", "b", " ">> }

Questions == { <<"w", "h", "o">>, <<"w", "h", "y">> }

ResponseTexts == { <<"y", "e", "s">> }

\* Messages the model request may reject with
ApiErrors ==
    { <<"4", "0", "4", " ", "n", "o", "t", " ", "f", "o", "u", "n", "d">>,
      <<"4", "0", "3">>,
      <<"t", "o", "k", "e", "n", " ", "l", "i", "m", "i", "t">>,
      <<"5", "0", "0">> }

\* What the model request may do: answer, answer without a response, reject
ApiOutcomes ==
    [kind : {"ok"}, text : ResponseTexts]
        \cup [kind : {"empty"}, text : {<<>>}]
        \cup [kind : {"reject"}, text : ApiErrors]

VARIABLES
    pdfContent,           \* GeminiService.pdfContent
    conversationHistory,  \* GeminiService.conversationHistory
    processingState,      \* GeminiService.processingState
    lastError,            \* GeminiService.lastError
    calls,                \* the chat calls, each idle or awaiting the model
    nChats,               \* number of chat calls started
    added,                \* history: every entry added since the last clear
    finished              \* history: the call that finished last, if none runs

geminiVars ==
    <<pdfContent, conversationHistory, processingState, lastError, calls,
      nChats, added, finished>>

VARIABLES
    exPc,          \* where extractTextFromPDF stands: the promise it awaits
    totalPages,    \* extractTextFromPDF: totalPages
    currentPage,   \* extractTextFromPDF: currentPage
    chunkEndPage,  \* extractTextFromPDF: chunkEndPage
    pageIndex,     \* extractTextFromPDF: i
    chunkText,     \* extractTextFromPDF: chunkText
    fullText,      \* extractTextFromPDF: fullText
    exLog,         \* the onProgress updates and getPage calls, in order
    exResult,      \* the text the promise resolved with, or NULL
    exError,       \* the message the promise rejected with, or NULL
    exFailedAt,    \* history: the step that failed, or "none"
    pageTexts,     \* history: the text taken for each page read so far
    chunkCount,    \* history: number of chunks completed
    pageFile,      \* PDFChatPage: whether file is set
    isProcessing,  \* PDFChatPage: isProcessing
    pageError,     \* PDFChatPage: error
    pageProgress,  \* PDFChatPage: progress
    extractedText  \* PDFChatPage: extractedText

extractVars ==
    <<exPc, totalPages, currentPage, chunkEndPage, pageIndex, chunkText,
      fullText, exLog, exResult, exError, exFailedAt, pageTexts, chunkCount,
      pageFile, isProcessing, pageError, pageProgress, extractedText>>

VARIABLES
    authUser,        \* AuthProvider: user (NoUser for null)
    authLoading,     \* AuthProvider: loading
    session,         \* the auth client: the user of the session (NoUser for none)
    sessionPending,  \* AuthProvider: getSession() has not answered
    authEvents,      \* auth state changes the onAuthStateChange callback has not been called with
    location,        \* Router: the path
    routeView,       \* what the route at the path renders
    logoutPc,        \* Layout: position of handleLogout
    lastAuthEvent    \* history: the session of the auth state change the last step delivered, if any

authVars ==
    <<authUser, authLoading, session, sessionPending, authEvents, location, routeView,
      logoutPc, lastAuthEvent>>

VARIABLES
    modalOpen,        \* Dashboard: isUploadModalOpen
    file,             \* UploadModal: file
    title,            \* UploadModal: title
    category,         \* UploadModal: category
    tags,             \* UploadModal: tags
    newTag,           \* UploadModal: newTag
    isUploading,      \* UploadModal: isUploading
    upIsProcessing,   \* UploadModal: isProcessing
    upExtractedText,  \* UploadModal: extractedText
    upError,          \* UploadModal: error
    upTask,           \* the processImageWithOCR / processPDFWithExtraction call in flight
    upSubmit,         \* the handleSubmit call in flight, or the last one, with the values it
                      \* closed over and (log) the steps it has made
    storageFiles,     \* backend: the objects of the 'notes' bucket
    dbNotes,          \* backend: the rows of table notes
    dbNoteTags,       \* backend: the rows of table note_tags
    nSubmits,         \* number of handleSubmit calls that reached the backend
    lastDetect        \* history: the run of detectCategory the last step made, if any

uploadVars ==
    <<modalOpen, file, title, category, tags, newTag, isUploading, upIsProcessing,
      upExtractedText, upError, upTask, upSubmit, storageFiles, dbNotes,
      dbNoteTags, nSubmits, lastDetect>>

VARIABLES
    notes,               \* Dashboard: notes
    filteredNotes,       \* Dashboard: filteredNotes
    searchTerm,          \* Dashboard: searchTerm
    selectedCategory,    \* Dashboard: selectedCategory
    selectedTag,         \* Dashboard: selectedTag
    isLoading,           \* Dashboard: isLoading
    dashError,           \* Dashboard: error
    deleteConfirmation,  \* Dashboard: deleteConfirmation
    effectPending,       \* the filter effect is due: one of its dependencies has changed
    fetching,            \* number of fetchNotes calls waiting for the answer
    dashDelete           \* the handleDeleteNote call in flight, with the values it closed over

dashVars ==
    <<notes, filteredNotes, searchTerm, selectedCategory, selectedTag, isLoading,
      dashError, deleteConfirmation, effectPending, fetching, dashDelete>>

VARIABLES
    annotations,     \* NoteViewer: note.annotations, the list the page shows
    nvError,         \* NoteViewer: error
    dbAnnotations,   \* backend: the rows of table annotations of this note
    annCalls,        \* the handleAddAnnotation / handleDeleteAnnotation calls in flight,
                     \* each with the note.annotations of the render it was made in
    nInserts,        \* number of handleAddAnnotation calls made
    lastAnnotation   \* history: the handler call that ended in the last step, if any

noteViewVars ==
    <<annotations, nvError, dbAnnotations, annCalls, nInserts, lastAnnotation>>

VARIABLES
    splitText,       \* splitTextIntoChunks: the argument text
    splitChunkSize,  \* splitTextIntoChunks: the argument chunkSize
    splitChunks,     \* splitTextIntoChunks: the array returned
    splitDone        \* the function has returned

splitVars == <<splitText, splitChunkSize, splitChunks, splitDone>>

VARIABLES
    chatMounted,   \* PDFChat is rendered (the chat tab of the viewer is open)
    chatText,      \* PDFChat: the prop extractedText
    messages,      \* PDFChat: messages
    chatInput,     \* PDFChat: input
    chatLoading,   \* PDFChat: loading
    chatError,     \* PDFChat: error
    isApiReady,    \* PDFChat: isApiReady
    chatSubmit,    \* the handleSubmit call that awaits geminiService.chat, with what
                   \* it saw when it was accepted
    asked,         \* history: the questions of the accepted submissions, in order
    lastReply      \* history: the submission that completed in the last step, if any

chatVars ==
    <<chatMounted, chatText, messages, chatInput, chatLoading, chatError, isApiReady,
      chatSubmit, asked, lastReply>>

VARIABLES
    txPc,              \* where the extraction run of PDFTextExtractor stands
    numPages,          \* PDFTextExtractor: numPages (0 while it is null)
    isExtracting,      \* PDFTextExtractor: isExtracting
    txProgress,        \* PDFTextExtractor: progress
    txCurrentPage,     \* PDFTextExtractor: currentPage
    pageProgressList,  \* PDFTextExtractor: the status of every page of pageProgressList
    errorDetails,      \* PDFTextExtractor: errorDetails
    batchSize,         \* extractTextFromPDF: batchSize
    batchStart,        \* extractTextFromPDF: i, the first page of the batch
    processedPages,    \* extractTextFromPDF: processedPages
    txCalls,           \* history: the calls of onTextExtracted and onError
    retried            \* history: handleRetry was called and no callback since

textExVars ==
    <<txPc, numPages, isExtracting, txProgress, txCurrentPage, pageProgressList,
      errorDetails, batchSize, batchStart, processedPages, txCalls, retried>>

VARIABLES
    noteTitle,    \* NoteViewer: note.title
    noteTags,     \* NoteViewer: note.tags
    isEditing,    \* NoteViewer: isEditing
    editedTitle,  \* NoteViewer: editedTitle
    editedTags,   \* NoteViewer: editedTags
    dbTitle,      \* backend: the title of the row of the note in table notes
    dbTags,       \* backend: the tags of the note in table note_tags
    saveCall,     \* the handleSaveChanges call in flight, with the values it closed over
    nSaves,       \* number of handleSaveChanges calls made
    lastSave      \* history: the handleSaveChanges call that ended in the last step, if any

saveVars ==
    <<noteTitle, noteTags, isEditing, editedTitle, editedTags, dbTitle, dbTags,
      saveCall, nSaves, lastSave>>

pageVars == <<noteViewVars, splitVars, chatVars, textExVars, saveVars>>

vars == <<geminiVars, extractVars, authVars, uploadVars, dashVars, pageVars>>

nonGeminiVars == <<extractVars, authVars, uploadVars, dashVars, pageVars>>

nonExtractVars == <<geminiVars, authVars, uploadVars, dashVars, pageVars>>

nonModalVars == <<geminiVars, extractVars, authVars, pageVars>>

nonAuthVars == <<geminiVars, extractVars, uploadVars, dashVars, pageVars>>

nonNoteViewVars == <<geminiVars, extractVars, authVars, uploadVars, dashVars, splitVars,
                     chatVars, textExVars, saveVars>>

nonSplitVars ==
    <<geminiVars, extractVars, authVars, uploadVars, dashVars, noteViewVars, chatVars,
      textExVars, saveVars>>

nonChatVars ==
    <<geminiVars, extractVars, authVars, uploadVars, dashVars, noteViewVars, splitVars,
      textExVars, saveVars>>

nonTextExVars ==
    <<geminiVars, extractVars, authVars, uploadVars, dashVars, noteViewVars, splitVars,
      chatVars, saveVars>>

\* All but the variables of the edit form of NoteViewer and its error
nonSaveVars ==
    <<geminiVars, extractVars, authVars, uploadVars, dashVars, splitVars, chatVars,
      textExVars, dbAnnotations, annCalls, nInserts, lastAnnotation>>

nonUploadVars == <<nonModalVars, dashVars>>

InFlight == {c \in Callers : calls[c].pc # "idle"}

\* requests: the model requests the call has issued; rejected: the message the
\* first of them failed with, if a retry followed
IdleCall ==
    [pc |-> "idle", question |-> <<>>, prompt |-> <<>>, overlapped |-> FALSE,
     hadHistory |-> FALSE, contextSent |-> FALSE, requests |-> 0, rejected |-> <<>>]

\* addToConversationHistory with slice(0, max) in place of slice(-max)
addToConversationHistoryKeepFirst(history, role, content) ==
    LET pushed == Append(history, [role |-> role, content |-> content])
    IN  IF Len(pushed) > maxHistoryLength
        THEN SubSeq(pushed, 1, maxHistoryLength)
        ELSE pushed

\* addToConversationHistory
addToConversationHistory(history, role, content) ==
    LET pushed == Append(history, [role |-> role, content |-> content])
    IN  IF Len(pushed) > maxHistoryLength
        THEN SubSeq(pushed, Len(pushed) - maxHistoryLength + 1, Len(pushed))
        ELSE pushed

\* getConversationContext
RECURSIVE JoinLines(_)
JoinLines(lines) ==
    IF lines = <<>> THEN <<>>
    ELSE IF Len(lines) = 1 THEN Head(lines)
    ELSE Head(lines) \o <<"\n">> \o JoinLines(Tail(lines))

getConversationContext(history) ==
    IF Len(history) = 0 THEN <<>>
    ELSE JoinLines([i \in 1..Len(history) |->
            (IF history[i].role = "human" THEN <<"Human: ">> ELSE <<"AI: ">>)
                \o history[i].content])

\* A first prompt with the whole document
ChatPromptWhole(content, question) ==
    <<"\nDocument content:\n">> \o content
        \o <<"\n\nQuestion: ">> \o question
        \o <<"\n\nPlease answer the question based only on the document content above. \nIf you cannot find the answer in the document, say so clearly.">>

\* The prompt of the first request
ChatPrompt(content, question) ==
    LET truncatedContent ==
            IF Len(content) > maxContentLength
            THEN Substring(content, 0, maxContentLength)
                     \o <<"... [Content truncated due to length]">>
            ELSE content
    IN  <<"\nDocument content:\n">> \o truncatedContent
            \o <<"\n\nQuestion: ">> \o question
            \o <<"\n\nPlease answer the question based only on the document content above. \nIf you cannot find the answer in the document, say so clearly.">>

\* The prompt of the retry
ShorterPrompt(content, question) ==
    <<"\nDocument excerpt:\n">> \o Substring(content, 0, retryContentLength)
        \o <<"... [Content truncated]">>
        \o <<"\n\nQuestion: ">> \o question
        \o <<"\n\nPlease answer based on this excerpt from the document. \nIf you cannot find the answer in this excerpt, say so clearly.">>

\* The inner catch of chat: what the failed first request leads to
IsNotFound(msg) ==
    Includes(msg, <<"4", "0", "4">>)
        \/ Includes(msg, <<"n", "o", "t", " ", "f", "o", "u", "n", "d">>)

IsUnauthorized(msg) ==
    Includes(msg, <<"4", "0", "1">>) \/ Includes(msg, <<"4", "0", "3">>)

IsTooLong(msg) ==
    Includes(msg, <<"t", "o", "o", " ", "l", "o", "n", "g">>)
        \/ Includes(msg, <<"t", "o", "k", "e", "n">>)
        \/ Includes(msg, <<"l", "i", "m", "i", "t">>)

\* An inner catch that retries after an authorization error too
InnerCatchRetryUnauthorized(msg) ==
    IF IsNotFound(msg)
    THEN [retry |-> FALSE,
          message |-> <<"The Gemini API model is not available. Please check your configuration.">>]
    ELSE IF IsUnauthorized(msg) \/ IsTooLong(msg)
    THEN [retry |-> TRUE, message |-> <<>>]
    ELSE [retry |-> FALSE, message |-> <<"API request failed: ">> \o msg]

InnerCatch(msg) ==
    IF IsNotFound(msg)
    THEN [retry |-> FALSE,
          message |-> <<"The Gemini API model is not available. Please check your configuration.">>]
    ELSE IF IsUnauthorized(msg)
    THEN [retry |-> FALSE,
          message |-> <<"Invalid API key or insufficient permissions. Please check your API key.">>]
    ELSE IF IsTooLong(msg)
    THEN [retry |-> TRUE, message |-> <<>>]
    ELSE [retry |-> FALSE, message |-> <<"API request failed: ">> \o msg]

\* The message of the error a model request fails with
OutcomeError(outcome, firstRequest) ==
    CASE outcome.kind = "reject" -> outcome.text
      [] outcome.kind = "empty" /\ firstRequest -> <<"Empty response from Gemini API">>
      [] OTHER -> <<"Cannot read properties of undefined (reading 'response')">>

\* The outer catch of chat without its assignment to processingState
OuterCatchKeepsState(msg) ==
    LET m == IF msg # <<>> THEN msg
             ELSE <<"Failed to process chat request. Please try again.">>
    IN  [processingState |-> processingState, lastError |-> m]

\* The outer catch of chat
OuterCatch(msg) ==
    LET m == IF msg # <<>> THEN msg
             ELSE <<"Failed to process chat request. Please try again.">>
    IN  [processingState |-> "error", lastError |-> m]

\* The state chat and setPDFContent leave when they return normally
ReturnState == "idle"

\* No call has finished since the last one started
NoCall == [op |-> "none", outcome |-> "none", overlapped |-> FALSE]

\* The call that ends now, and whether another call ran while it did
Finish(op, outcome, overlapped) ==
    [op |-> op, outcome |-> outcome, overlapped |-> overlapped]

MarkOverlapped(cs, running) ==
    [c \in Callers |->
        IF c \in running THEN [cs[c] EXCEPT !.overlapped = TRUE] ELSE cs[c]]

GeminiInit ==
    /\ pdfContent = <<>>
    /\ conversationHistory = <<>>
    /\ processingState = "idle"
    /\ lastError = NULL
    /\ calls = [c \in Callers |-> IdleCall]
    /\ nChats = 0
    /\ added = <<>>
    /\ finished = NoCall

\* clearConversationHistory
ClearConversationHistory ==
    /\ conversationHistory' = <<>>
    /\ added' = <<>>
    /\ UNCHANGED <<pdfContent, processingState, lastError, calls, nChats, finished>>
    /\ UNCHANGED nonGeminiVars

\* setPDFContent: it awaits nothing, so it runs to its end in one step
SetPDFContent(pdfText) ==
    /\ IF Len(pdfText) = 0 \/ Len(Trim(pdfText)) = 0
       THEN /\ processingState' = "error"
            /\ lastError' = <<"Failed to process PDF content">>
            /\ finished' = Finish("setPDFContent", "throw", InFlight # {})
            /\ UNCHANGED <<pdfContent, conversationHistory, added>>
       ELSE LET cleanedText == Trim(CollapseSpaces(pdfText))
            IN  /\ pdfContent' = IF Len(cleanedText) > MAX_CHARS
                                 THEN Substring(cleanedText, 0, MAX_CHARS)
                                 ELSE cleanedText
                /\ conversationHistory' = <<>>
                /\ added' = <<>>
                /\ processingState' = ReturnState
                /\ finished' = Finish("setPDFContent", "return", InFlight # {})
                /\ UNCHANGED lastError
    /\ calls' = MarkOverlapped(calls, InFlight)
    /\ UNCHANGED nChats
    /\ UNCHANGED nonGeminiVars

\* chat, up to its first await
ChatStart(c, question) ==
    /\ calls[c].pc = "idle"
    /\ FirstFree(c, calls)
    /\ nChats < MaxChats
    /\ nChats' = nChats + 1
    /\ IF pdfContent = <<>>
       THEN LET thrown ==
                    OuterCatch(<<"No PDF has been loaded. Please load a PDF first.">>)
            IN  /\ processingState' = thrown.processingState
                /\ lastError' = thrown.lastError
                /\ finished' = Finish("chat", "throw", InFlight # {})
                /\ calls' = MarkOverlapped(calls, InFlight)
       ELSE /\ processingState' = "processing"
            /\ finished' = NoCall
            /\ calls' = [MarkOverlapped(calls, InFlight) EXCEPT ![c] =
                    [pc |-> "first", question |-> question,
                     prompt |-> ChatPrompt(pdfContent, question),
                     overlapped |-> InFlight # {},
                     hadHistory |-> conversationHistory # <<>>,
                     contextSent |->
                         Includes(ChatPrompt(pdfContent, question),
                                  getConversationContext(conversationHistory)),
                     requests |-> 1, rejected |-> <<>>]]
            /\ UNCHANGED lastError
    /\ UNCHANGED <<pdfContent, conversationHistory, added>>
    /\ UNCHANGED nonGeminiVars

\* chat returns responseText: both turns are stored, the state is idle
ChatReturn(c, responseText) ==
    /\ conversationHistory' =
           addToConversationHistory(
               addToConversationHistory(conversationHistory, "human", calls[c].question),
               "ai", responseText)
    /\ added' = added \o <<[role |-> "human", content |-> calls[c].question],
                           [role |-> "ai", content |-> responseText]>>
    /\ processingState' = ReturnState
    /\ finished' = IF InFlight = {c}
                   THEN Finish("chat", "return", calls[c].overlapped)
                   ELSE NoCall
    /\ calls' = [calls EXCEPT ![c] = IdleCall]
    /\ UNCHANGED <<pdfContent, lastError, nChats>>

\* chat throws: the outer catch
ChatThrow(c, msg) ==
    LET thrown == OuterCatch(msg)
    IN  /\ processingState' = thrown.processingState
        /\ lastError' = thrown.lastError
        /\ finished' = IF InFlight = {c}
                       THEN Finish("chat", "throw", calls[c].overlapped)
                       ELSE NoCall
        /\ calls' = [calls EXCEPT ![c] = IdleCall]
        /\ UNCHANGED <<pdfContent, conversationHistory, added, nChats>>

\* chat, from the answer of the first request on
ChatFirstResponse(c, outcome) ==
    /\ calls[c].pc = "first"
    /\ IF outcome.kind = "ok"
       THEN ChatReturn(c, outcome.text)
       ELSE LET caught == InnerCatch(OutcomeError(outcome, TRUE))
            IN  IF caught.retry
                THEN /\ calls' = [calls EXCEPT
                            ![c].pc = "retry",
                            ![c].requests = @ + 1,
                            ![c].rejected = OutcomeError(outcome, TRUE),
                            ![c].prompt = ShorterPrompt(pdfContent, calls[c].question),
                            ![c].hadHistory = conversationHistory # <<>>,
                            ![c].contextSent =
                                Includes(ShorterPrompt(pdfContent, calls[c].question),
                                         getConversationContext(conversationHistory))]
                     /\ UNCHANGED <<pdfContent, conversationHistory, processingState,
                                    lastError, nChats, added, finished>>
                ELSE ChatThrow(c, caught.message)
    /\ UNCHANGED nonGeminiVars

\* chat, from the answer of the retry on
ChatRetryResponse(c, outcome) ==
    /\ calls[c].pc = "retry"
    /\ IF outcome.kind = "ok"
       THEN ChatReturn(c, outcome.text)
       ELSE ChatThrow(c, OutcomeError(outcome, FALSE))
    /\ UNCHANGED nonGeminiVars

\* Documents around the three limits: longer than MAX_CHARS, just longer than
\* maxContentLength once its whitespace is normalized, exactly
\* maxContentLength, just longer than retryContentLength, and a short one
Repeat(ch, n) == [k \in 1..n |-> ch] \o <<>>

LongTexts ==
    { Repeat("x", MAX_CHARS + 1),
      <<" ">> \o Repeat("x", maxContentLength) \o <<" ", "\n", "y", "\n">>,
      Repeat("x", maxContentLength),
      Repeat("x", retryContentLength - 1) \o <<" ", " ", "y">>,
      <<"d", "o", "c">> }

\* The service after chat was called MaxChats - 1 times with no PDF loaded
LongInit ==
    /\ pdfContent = <<>>
    /\ conversationHistory = <<>>
    /\ processingState = "error"
    /\ lastError = <<"No PDF has been loaded. Please load a PDF first.">>
    /\ calls = [c \in Callers |-> IdleCall]
    /\ nChats = MaxChats - 1
    /\ added = <<>>
    /\ finished = Finish("chat", "throw", FALSE)

LongNext ==
    \/ \E t \in LongTexts : SetPDFContent(t)
    \/ \E c \in Callers, q \in Questions : ChatStart(c, q)
    \/ \E c \in Callers, o \in ApiOutcomes : ChatFirstResponse(c, o)
    \/ \E c \in Callers, o \in ApiOutcomes : ChatRetryResponse(c, o)

GeminiNext ==
    \/ ClearConversationHistory
    \/ \E t \in PdfTexts : SetPDFContent(t)
    \/ \E c \in Callers, q \in Questions : ChatStart(c, q)
    \/ \E c \in Callers, o \in ApiOutcomes : ChatFirstResponse(c, o)
    \/ \E c \in Callers, o \in ApiOutcomes : ChatRetryResponse(c, o)


(***************************************************************************)
(* extractTextFromPDF (lib/pdf-utils) and its caller PDFChatPage.onDrop    *)
(***************************************************************************)
MAX_PAGES_PER_CHUNK == 5

\* A page whose trimmed text is shorter than this is read by OCR
ocrMinLength == 50

\* Bound on the number of pages of a document
MaxPages == 11

\* Text layers of a page: one just long enough to be kept, with a leading
\* space, and one that is long enough only before it is trimmed
KeptText == <<" ">> \o [k \in 1..ocrMinLength |-> "x"]
ScannedText == <<" ">> \o [k \in 1..(ocrMinLength - 1) |-> "y"] \o <<" ">>
PageTextLayers == {KeptText, ScannedText}

\* What OCR reads from a rendered page
OcrTexts == { <<"o", "c", "r", "\n">> }

PageSeparator == <<"\n", "\n">>

ProgressUpdate(page, total, status, template, args) ==
    [kind |-> "progress", currentPage |-> page, totalPages |-> total,
     status |-> status, message |-> [template |-> template, args |-> args]]

GetPageCall(page) ==
    [kind |-> "getPage", currentPage |-> page, totalPages |-> 0,
     status |-> "", message |-> [template |-> "", args |-> <<>>]]

ExtractingProgress(i, total) ==
    ProgressUpdate(i, total, "extracting", "Extracting text from page ${i} of ${totalPages}...",
                   <<i, total>>)

OcrProgress(i, total) ==
    ProgressUpdate(i, total, "ocr", "Running OCR on page ${i}...", <<i>>)

\* The update at the end of a chunk; page is the first page not yet processed
ChunkProgress(page, total) ==
    IF page > total
    THEN ProgressUpdate(page, total, "complete", "Text extraction complete", <<>>)
    ELSE ProgressUpdate(page, total, "extracting",
                        "Processed ${currentPage - 1} of ${totalPages} pages",
                        <<page - 1, total>>)

ErrorProgress ==
    ProgressUpdate(0, 0, "error", "Failed to extract text from PDF", <<>>)

\* ChunkEnd with the - 1 forgotten: a chunk of six pages
ChunkEndOffByOne(page, total) == Min(page + MAX_PAGES_PER_CHUNK, total)

\* The last page of the chunk that starts at page
ChunkEnd(page, total) == Min(page + MAX_PAGES_PER_CHUNK - 1, total)

\* The first page of the chunk after the one that ends at endPage
NextChunkStart(endPage) == endPage + 1

\* A catch block that reports nothing
CatchLogSilent(log) == log

\* What the catch block reports
CatchLog(log) == Append(log, ErrorProgress)

\* Whether the page is read by OCR
NeedsOcr(pageText) == Len(Trim(pageText)) < ocrMinLength

ExtractInit ==
    /\ exPc = "idle"
    /\ totalPages = 0
    /\ currentPage = 0
    /\ chunkEndPage = 0
    /\ pageIndex = 0
    /\ chunkText = <<>>
    /\ fullText = <<>>
    /\ exLog = <<>>
    /\ exResult = NULL
    /\ exError = NULL
    /\ exFailedAt = "none"
    /\ pageTexts = <<>>
    /\ chunkCount = 0
    /\ pageFile = FALSE
    /\ isProcessing = FALSE
    /\ pageError = NULL
    /\ pageProgress = NULL
    /\ extractedText = <<>>

\* onDrop with one PDF file (the drop zone is rendered while no file is set):
\* extractTextFromPDF starts and runs up to its await of file.arrayBuffer()
OnDropPdf ==
    /\ ~pageFile
    /\ exPc \in {"idle", "done", "rejected"}
    /\ pageFile' = TRUE
    /\ exPc' = "arrayBuffer"
    /\ totalPages' = 0
    /\ currentPage' = 0
    /\ chunkEndPage' = 0
    /\ pageIndex' = 0
    /\ chunkText' = <<>>
    /\ fullText' = <<>>
    /\ exLog' = <<>>
    /\ exResult' = NULL
    /\ exError' = NULL
    /\ exFailedAt' = "none"
    /\ pageTexts' = <<>>
    /\ chunkCount' = 0
    /\ isProcessing' = TRUE
    /\ pageError' = NULL
    /\ pageProgress' = NULL
    /\ UNCHANGED extractedText
    /\ UNCHANGED nonExtractVars

\* The Remove button, once the extraction of the file has ended
RemoveFile ==
    /\ pageFile
    /\ exPc \in {"done", "rejected"}
    /\ pageFile' = FALSE
    /\ extractedText' = <<>>
    /\ pageError' = NULL
    /\ pageProgress' = NULL
    /\ UNCHANGED <<exPc, totalPages, currentPage, chunkEndPage, pageIndex, chunkText,
                   fullText, exLog, exResult, exError, exFailedAt, pageTexts,
                   chunkCount, isProcessing>>
    /\ UNCHANGED nonExtractVars

\* The awaited promise rejects, or the canvas has no 2d context: the catch
\* block of extractTextFromPDF, then the catch and finally of onDrop
ExtractCatch(step) ==
    /\ exLog' = CatchLog(exLog)
    /\ exPc' = "rejected"
    /\ exError' = <<"Failed to extract text from PDF. Please try again.">>
    /\ exFailedAt' = step
    /\ pageError' = <<"Failed to process PDF. Please try again.">>
    /\ isProcessing' = FALSE
    /\ pageProgress' = NULL
    /\ UNCHANGED <<totalPages, currentPage, chunkEndPage, pageIndex, chunkText,
                   fullText, exResult, pageTexts, chunkCount, pageFile, extractedText>>

\* A step that only waits: arrayBuffer, createWorker, loadLanguage,
\* getPage, render
SimpleSteps ==
    [arrayBuffer |-> "getDocument", createWorker |-> "loadLanguage",
     loadLanguage |-> "initialize", getPage |-> "getTextContent",
     render |-> "recognize"]

ExtractAwait(ok) ==
    /\ exPc \in DOMAIN SimpleSteps
    /\ IF ok
       THEN /\ exPc' = SimpleSteps[exPc]
            /\ UNCHANGED <<totalPages, currentPage, chunkEndPage, pageIndex,
                           chunkText, fullText, exLog, exResult, exError,
                           exFailedAt, pageTexts, chunkCount, pageFile,
                           isProcessing, pageError, pageProgress, extractedText>>
       ELSE ExtractCatch(exPc)
    /\ UNCHANGED nonExtractVars

\* getDocument resolves with a document of n pages
ExtractGetDocument(ok, n) ==
    /\ exPc = "getDocument"
    /\ IF ok
       THEN /\ totalPages' = n
            /\ fullText' = <<>>
            /\ currentPage' = 1
            /\ exPc' = "createWorker"
            /\ UNCHANGED <<chunkEndPage, pageIndex, chunkText, exLog, exResult,
                           exError, exFailedAt, pageTexts, chunkCount, pageFile,
                           isProcessing, pageError, pageProgress, extractedText>>
       ELSE ExtractCatch("getDocument")
    /\ UNCHANGED nonExtractVars

\* The head of the while loop at page, with the text so far: the next chunk
\* starts with the progress update and the getPage call of its first page,
\* or the loop ends and the worker is terminated
LoopHead(page, log) ==
    IF page <= totalPages
    THEN /\ chunkEndPage' = ChunkEnd(page, totalPages)
         /\ chunkText' = <<>>
         /\ pageIndex' = page
         /\ exLog' = log \o <<ExtractingProgress(page, totalPages), GetPageCall(page)>>
         /\ pageProgress' = ExtractingProgress(page, totalPages)
         /\ exPc' = "getPage"
    ELSE /\ exPc' = "terminate"
         /\ exLog' = log
         /\ pageProgress' = IF log = exLog THEN pageProgress ELSE log[Len(log)]
         /\ UNCHANGED <<chunkEndPage, chunkText, pageIndex>>

\* worker.initialize resolves: the loop is entered
ExtractInitialize(ok) ==
    /\ exPc = "initialize"
    /\ IF ok
       THEN /\ LoopHead(currentPage, exLog)
            /\ UNCHANGED <<totalPages, currentPage, fullText, exResult, exError,
                           exFailedAt, pageTexts, chunkCount, pageFile,
                           isProcessing, pageError, extractedText>>
       ELSE ExtractCatch("initialize")
    /\ UNCHANGED nonExtractVars

\* The text of page pageIndex is known: it is added to the chunk, and the
\* for loop goes on with the next page or the chunk ends
PageDone(text, log) ==
    /\ pageTexts' = Append(pageTexts, text)
    /\ IF pageIndex + 1 <= chunkEndPage
       THEN /\ chunkText' = chunkText \o text \o PageSeparator
            /\ pageIndex' = pageIndex + 1
            /\ exLog' = log \o <<ExtractingProgress(pageIndex + 1, totalPages),
                                 GetPageCall(pageIndex + 1)>>
            /\ pageProgress' = ExtractingProgress(pageIndex + 1, totalPages)
            /\ exPc' = "getPage"
            /\ UNCHANGED <<fullText, currentPage, chunkEndPage, chunkCount>>
       ELSE /\ fullText' = fullText \o chunkText \o text \o PageSeparator
            /\ currentPage' = NextChunkStart(chunkEndPage)
            /\ chunkCount' = chunkCount + 1
            /\ LoopHead(NextChunkStart(chunkEndPage),
                        Append(log, ChunkProgress(NextChunkStart(chunkEndPage), totalPages)))
    /\ UNCHANGED <<totalPages, exResult, exError, exFailedAt, pageFile,
                   isProcessing, pageError, extractedText>>

\* page.getTextContent resolves with the text layer of the page
ExtractGetTextContent(ok, pageText, hasContext) ==
    /\ exPc = "getTextContent"
    /\ IF ~ok
       THEN ExtractCatch("getTextContent")
       ELSE IF NeedsOcr(pageText)
       THEN IF hasContext
            THEN /\ exLog' = Append(exLog, OcrProgress(pageIndex, totalPages))
                 /\ pageProgress' = OcrProgress(pageIndex, totalPages)
                 /\ exPc' = "render"
                 /\ UNCHANGED <<totalPages, currentPage, chunkEndPage, pageIndex,
                                chunkText, fullText, exResult, exError, exFailedAt,
                                pageTexts, chunkCount, pageFile, isProcessing,
                                pageError, extractedText>>
            ELSE /\ exLog' = CatchLog(Append(exLog, OcrProgress(pageIndex, totalPages)))
                 /\ exPc' = "rejected"
                 /\ exError' = <<"Failed to extract text from PDF. Please try again.">>
                 /\ exFailedAt' = "getContext"
                 /\ pageError' = <<"Failed to process PDF. Please try again.">>
                 /\ isProcessing' = FALSE
                 /\ pageProgress' = NULL
                 /\ UNCHANGED <<totalPages, currentPage, chunkEndPage, pageIndex,
                                chunkText, fullText, exResult, pageTexts,
                                chunkCount, pageFile, extractedText>>
       ELSE PageDone(pageText, exLog)
    /\ UNCHANGED nonExtractVars

\* worker.recognize resolves with the text OCR read
ExtractRecognize(ok, ocrText) ==
    /\ exPc = "recognize"
    /\ IF ok THEN PageDone(ocrText, exLog) ELSE ExtractCatch("recognize")
    /\ UNCHANGED nonExtractVars

\* worker.terminate resolves: extractTextFromPDF returns, onDrop stores the text
ExtractTerminate(ok) ==
    /\ exPc = "terminate"
    /\ IF ok
       THEN /\ exPc' = "done"
            /\ exResult' = Trim(fullText)
            /\ extractedText' = Trim(fullText)
            /\ isProcessing' = FALSE
            /\ pageProgress' = NULL
            /\ UNCHANGED <<totalPages, currentPage, chunkEndPage, pageIndex,
                           chunkText, fullText, exLog, exError, exFailedAt,
                           pageTexts, chunkCount, pageFile, pageError>>
       ELSE ExtractCatch("terminate")
    /\ UNCHANGED nonExtractVars

ExtractNext ==
    \/ OnDropPdf
    \/ RemoveFile
    \/ \E ok \in BOOLEAN : ExtractAwait(ok)
    \/ \E ok \in BOOLEAN, n \in 1..MaxPages : ExtractGetDocument(ok, n)
    \/ \E ok \in BOOLEAN : ExtractInitialize(ok)
    \/ \E ok \in BOOLEAN, t \in PageTextLayers, ctx \in BOOLEAN :
           ExtractGetTextContent(ok, t, ctx)
    \/ \E ok \in BOOLEAN, t \in OcrTexts : ExtractRecognize(ok, t)
    \/ \E ok \in BOOLEAN : ExtractTerminate(ok)


(***************************************************************************)
(* UploadModal (components/UploadModal) and the backend it writes to       *)
(***************************************************************************)
UpperCase == <<"A", "B", "C", "D", "E", "F", "G", "H", "I", "J", "K", "L", "M", "N", "O", "P", "Q", "R", "S", "T", "U", "V", "W", "X", "Y", "Z">>
LowerCase == <<"a", "b", "c", "d", "e", "f", "g", "h", "i", "j", "k", "l", "m", "n", "o", "p", "q", "r", "s", "t", "u", "v", "w", "x", "y", "z">>

\* String.prototype.toLowerCase
ToLowerCase(s) ==
    [i \in 1..Len(s) |->
        IF \E u \in DOMAIN UpperCase : UpperCase[u] = s[i]
        THEN LowerCase[CHOOSE u \in DOMAIN UpperCase : UpperCase[u] = s[i]]
        ELSE s[i]]

\* Array.prototype.includes
InSeq(x, seq) == \E i \in 1..Len(seq) : seq[i] = x

\* s.split(sep)[0]
RECURSIVE SplitFirst(_, _)
SplitFirst(s, sep) ==
    IF s = <<>> \/ Head(s) = sep THEN <<>>
    ELSE <<Head(s)>> \o SplitFirst(Tail(s), sep)

\* s.split(sep).pop()
RECURSIVE SplitLast(_, _)
SplitLast(s, sep) ==
    IF \E i \in 1..Len(s) : s[i] = sep
    THEN SplitLast(SubSeq(s, (CHOOSE i \in 1..Len(s) : s[i] = sep /\ \A j \in 1..(i - 1) : s[j] # sep) + 1, Len(s)), sep)
    ELSE s

NoUser == "none"

\* No note id (null)
NoNote == "none"

\* Number of tags detectCategory suggests at most
maxSuggestedTags == 3

\* Length of the summary generateSummary cuts the text to
summaryLength == 150

\* Bound on the number of handleSubmit calls that reach the backend
MaxSubmits == 1

NoFile == [name |-> NULL, type |-> NULL]

\* The files dropped: a.pdf, b.png, c.txt, d.md with their MIME types
DroppedFiles ==
    { [name |-> <<"a", ".", "p", "d", "f">>, type |-> <<"a", "p", "p", "l", "i", "c", "a", "t", "i", "o", "n", "/", "p", "d", "f">>],
      [name |-> <<"b", ".", "p", "n", "g">>, type |-> <<"i", "m", "a", "g", "e", "/", "p", "n", "g">>],
      [name |-> <<"c", ".", "t", "x", "t">>, type |-> <<"t", "e", "x", "t", "/", "p", "l", "a", "i", "n">>],
      [name |-> <<"d", ".", "m", "d">>, type |-> <<"t", "e", "x", "t", "/", "m", "a", "r", "k", "d", "o", "w", "n">>] }

\* Texts read from an image or a PDF:
\*   "a novel algorithm exam", "Biology lecture notes review summary", ""
ReadTexts ==
    { <<"a", " ", "n", "o", "v", "e", "l", " ", "a", "l", "g", "o", "r", "i", "t", "h", "m", " ", "e", "x", "a", "m">>,
      <<"B", "i", "o", "l", "o", "g", "y", " ", "l", "e", "c", "t", "u", "r", "e", " ", "n", "o", "t", "e", "s", " ", "r", "e", "v", "i", "e", "w", " ", "s", "u", "m", "m", "a", "r", "y">>,
      <<>> }

\* What the user types into the tag field: " mine "
TagInputs == { <<" ", "m", "i", "n", "e", " ">> }

\* What the user selects as category: Other
CategoryChoices == { <<"O", "t", "h", "e", "r">> }

\* The tags of the render whose detectCategory runs. onDrop is memoized with
\* useCallback(..., []), so it is the onDrop of the first render, and the
\* processImageWithOCR, processPDFWithExtraction and detectCategory it reaches
\* are those of the first render, whose tags is the initial [].
ClosureTags == <<>>

\* detectCategory with the categories tried in the reverse order
DetectedCategoryReversed(text, current) ==
    LET lowerText == ToLowerCase(text)
    IN
        IF   \/ Includes(lowerText, <<"c", "o", "m", "p", "u", "t", "e", "r">>)
            \/ Includes(lowerText, <<"p", "r", "o", "g", "r", "a", "m", "m", "i", "n", "g">>)
            \/ Includes(lowerText, <<"a", "l", "g", "o", "r", "i", "t", "h", "m">>)
        THEN <<"C", "o", "m", "p", "u", "t", "e", "r", " ", "S", "c", "i", "e", "n", "c", "e">>
        ELSE         IF   \/ Includes(lowerText, <<"l", "i", "t", "e", "r", "a", "t", "u", "r", "e">>)
            \/ Includes(lowerText, <<"n", "o", "v", "e", "l">>)
            \/ Includes(lowerText, <<"p", "o", "e", "t", "r", "y">>)
        THEN <<"L", "i", "t", "e", "r", "a", "t", "u", "r", "e">>
        ELSE         IF   \/ Includes(lowerText, <<"h", "i", "s", "t", "o", "r", "y">>)
            \/ Includes(lowerText, <<"c", "e", "n", "t", "u", "r", "y">>)
            \/ Includes(lowerText, <<"w", "a", "r">>)
        THEN <<"H", "i", "s", "t", "o", "r", "y">>
        ELSE         IF   \/ Includes(lowerText, <<"s", "c", "i", "e", "n", "c", "e">>)
            \/ Includes(lowerText, <<"b", "i", "o", "l", "o", "g", "y">>)
            \/ Includes(lowerText, <<"c", "h", "e", "m", "i", "s", "t", "r", "y">>)
        THEN <<"S", "c", "i", "e", "n", "c", "e">>
        ELSE         IF   \/ Includes(lowerText, <<"m", "a", "t", "h">>)
            \/ Includes(lowerText, <<"e", "q", "u", "a", "t", "i", "o", "n">>)
            \/ Includes(lowerText, <<"c", "a", "l", "c", "u", "l", "u", "s">>)
        THEN <<"M", "a", "t", "h">>
        ELSE current

\* detectCategory, first part: the category it sets (current: none set)
DetectedCategory(text, current) ==
    LET lowerText == ToLowerCase(text)
    IN
        IF   \/ Includes(lowerText, <<"m", "a", "t", "h">>)
            \/ Includes(lowerText, <<"e", "q", "u", "a", "t", "i", "o", "n">>)
            \/ Includes(lowerText, <<"c", "a", "l", "c", "u", "l", "u", "s">>)
        THEN <<"M", "a", "t", "h">>
        ELSE         IF   \/ Includes(lowerText, <<"s", "c", "i", "e", "n", "c", "e">>)
            \/ Includes(lowerText, <<"b", "i", "o", "l", "o", "g", "y">>)
            \/ Includes(lowerText, <<"c", "h", "e", "m", "i", "s", "t", "r", "y">>)
        THEN <<"S", "c", "i", "e", "n", "c", "e">>
        ELSE         IF   \/ Includes(lowerText, <<"h", "i", "s", "t", "o", "r", "y">>)
            \/ Includes(lowerText, <<"c", "e", "n", "t", "u", "r", "y">>)
            \/ Includes(lowerText, <<"w", "a", "r">>)
        THEN <<"H", "i", "s", "t", "o", "r", "y">>
        ELSE         IF   \/ Includes(lowerText, <<"l", "i", "t", "e", "r", "a", "t", "u", "r", "e">>)
            \/ Includes(lowerText, <<"n", "o", "v", "e", "l">>)
            \/ Includes(lowerText, <<"p", "o", "e", "t", "r", "y">>)
        THEN <<"L", "i", "t", "e", "r", "a", "t", "u", "r", "e">>
        ELSE         IF   \/ Includes(lowerText, <<"c", "o", "m", "p", "u", "t", "e", "r">>)
            \/ Includes(lowerText, <<"p", "r", "o", "g", "r", "a", "m", "m", "i", "n", "g">>)
            \/ Includes(lowerText, <<"a", "l", "g", "o", "r", "i", "t", "h", "m">>)
        THEN <<"C", "o", "m", "p", "u", "t", "e", "r", " ", "S", "c", "i", "e", "n", "c", "e">>
        ELSE current

\* detectCategory: keywords
TagKeywords ==
    << <<"r", "e", "s", "e", "a", "r", "c", "h">>,
       <<"e", "x", "a", "m">>,
       <<"h", "o", "m", "e", "w", "o", "r", "k">>,
       <<"p", "r", "o", "j", "e", "c", "t">>,
       <<"l", "e", "c", "t", "u", "r", "e">>,
       <<"t", "u", "t", "o", "r", "i", "a", "l">>,
       <<"i", "m", "p", "o", "r", "t", "a", "n", "t">>,
       <<"r", "e", "v", "i", "e", "w">>,
       <<"s", "u", "m", "m", "a", "r", "y">>,
       <<"n", "o", "t", "e", "s">>,
       <<"a", "s", "s", "i", "g", "n", "m", "e", "n", "t">> >>

\* detectCategory, second part: possibleTags
PossibleTags(text, seenTags) ==
    LET lowerText == ToLowerCase(text)
        Possible(keyword) == Includes(lowerText, keyword) /\ ~InSeq(keyword, seenTags)
    IN  SelectSeq(TagKeywords, Possible)

\* detectCategory, second part: the tags it sets (current: none set)
DetectedTags(text, seenTags, current) ==
    LET possibleTags == PossibleTags(text, seenTags)
    IN  IF Len(possibleTags) > 0
        THEN seenTags \o SubSeq(possibleTags, 1, Min(maxSuggestedTags, Len(possibleTags)))
        ELSE current

\* generateSummary
generateSummary(text) ==
    IF text = <<>> THEN NULL
    ELSE IF Len(text) > summaryLength
         THEN Substring(text, 0, summaryLength) \o <<"...">>
         ELSE text

\* handleSubmit: filePath, `notes/${user.id}/${fileId}.${fileExt}`
FilePath(user, fileId, fileExt) == <<"notes", "/", user, "/", fileId, ".">> \o fileExt

\* storage.getPublicUrl: the URL of an object of the bucket
getPublicUrl(path) ==
    <<"https:", "/", "/", "host", "/", "storage", "/", "public", "/", "notes", "/">> \o path

\* handleSubmit: fileType
FileTypeOf(f) ==
    IF Includes(f.type, <<"p", "d", "f">>) THEN "pdf"
    ELSE IF Includes(f.type, <<"i", "m", "a", "g", "e">>) THEN "image"
    ELSE IF Includes(f.type, <<"m", "a", "r", "k", "d", "o", "w", "n">>) THEN "markdown"
    ELSE "text"

\* The content handleSubmit stores: extractedText || null
StoredContent(text) == IF text = <<>> THEN NULL ELSE text

\* The row handleSubmit inserts into notes
NoteRow(id, user, sub, url) ==
    [id |-> id, user_id |-> user, title |-> sub.title, file_url |-> url,
     file_type |-> FileTypeOf(sub.file),
     category |-> IF sub.category = <<>> THEN NULL ELSE sub.category,
     content |-> StoredContent(sub.extractedText),
     summary |-> generateSummary(sub.extractedText)]

NoTask == [pc |-> "none"]

NoSubmit ==
    [pc |-> "none", user |-> NoUser, file |-> NoFile, title |-> <<>>,
     category |-> <<>>, extractedText |-> <<>>, tags |-> <<>>, filePath |-> <<>>,
     noteId |-> NoNote, mounted |-> FALSE, log |-> <<>>]

\* The user opens the modal and works on the form while no handleSubmit call
\* is in flight and the bound on these calls is not reached
UserAtWork == nSubmits < MaxSubmits /\ upSubmit.pc = "none"

NoDetect ==
    [ran |-> FALSE, text |-> <<>>, categoryBefore |-> <<>>, tagsBefore |-> <<>>]

\* The state of a freshly mounted UploadModal
ModalFresh ==
    /\ file' = NoFile
    /\ title' = <<>>
    /\ category' = <<>>
    /\ tags' = <<>>
    /\ newTag' = <<>>
    /\ isUploading' = FALSE
    /\ upIsProcessing' = FALSE
    /\ upExtractedText' = <<>>
    /\ upError' = <<>>
    /\ upTask' = NoTask
    /\ lastDetect' = NoDetect

modalState ==
    <<file, title, category, tags, newTag, isUploading, upIsProcessing,
      upExtractedText, upError, upTask>>

backendState == <<storageFiles, dbNotes, dbNoteTags>>

ModalInit ==
    /\ modalOpen = FALSE
    /\ file = NoFile
    /\ title = <<>>
    /\ category = <<>>
    /\ tags = <<>>
    /\ newTag = <<>>
    /\ isUploading = FALSE
    /\ upIsProcessing = FALSE
    /\ upExtractedText = <<>>
    /\ upError = <<>>
    /\ upTask = NoTask
    /\ upSubmit = NoSubmit
    /\ nSubmits = 0
    /\ lastDetect = NoDetect

EmptyBackend ==
    /\ storageFiles = {}
    /\ dbNotes = <<>>
    /\ dbNoteTags = <<>>

UploadInit == ModalInit /\ EmptyBackend

\* Dashboard: the Upload Notes button mounts the modal
OpenModal ==
    /\ authUser # NoUser
    /\ ~modalOpen
    /\ UserAtWork
    /\ modalOpen' = TRUE
    /\ ModalFresh
    /\ UNCHANGED <<upSubmit, nSubmits>>
    /\ UNCHANGED backendState
    /\ UNCHANGED nonUploadVars

\* onClose: the modal is unmounted, its state is gone and the processing call
\* in flight can no longer change it; a handleSubmit in flight goes on
CloseModal ==
    /\ modalOpen
    /\ modalOpen' = FALSE
    /\ ModalFresh
    /\ upSubmit' = IF upSubmit.pc = "none" THEN upSubmit
                  ELSE [upSubmit EXCEPT !.mounted = FALSE]
    /\ UNCHANGED nSubmits
    /\ UNCHANGED backendState
    /\ UNCHANGED nonUploadVars

\* onDrop: the file and the title are set; an image or a PDF starts to be
\* processed (one processing call is in flight at a time)
OnDrop(f) ==
    /\ modalOpen
    /\ UserAtWork
    /\ file' = f
    /\ title' = SplitFirst(f.name, ".")
    /\ IF Includes(f.type, <<"i", "m", "a", "g", "e">>)
       THEN /\ upTask.pc = "none"
            /\ upTask' = [pc |-> "imageRecognize"]
            /\ upIsProcessing' = TRUE
            /\ UNCHANGED upError
       ELSE IF Includes(f.type, <<"p", "d", "f">>)
       THEN /\ upTask.pc = "none"
            /\ upTask' = [pc |-> "pdfExtract"]
            /\ upIsProcessing' = TRUE
            /\ upError' = <<>>
       ELSE UNCHANGED <<upTask, upIsProcessing, upError>>
    /\ UNCHANGED <<modalOpen, category, tags, newTag, isUploading, upExtractedText,
                   upSubmit, nSubmits>>
    /\ lastDetect' = NoDetect
    /\ UNCHANGED backendState
    /\ UNCHANGED nonUploadVars

\* The Replace button
ReplaceFile ==
    /\ modalOpen
    /\ UserAtWork
    /\ file # NoFile
    /\ file' = NoFile
    /\ upExtractedText' = <<>>
    /\ UNCHANGED <<modalOpen, title, category, tags, newTag, isUploading,
                   upIsProcessing, upError, upTask, upSubmit, nSubmits>>
    /\ lastDetect' = NoDetect
    /\ UNCHANGED backendState
    /\ UNCHANGED nonUploadVars

\* detectCategory(text), as the onDrop closure runs it
DetectCategory(text) ==
    /\ category' = DetectedCategory(text, category)
    /\ tags' = DetectedTags(text, ClosureTags, tags)
    /\ lastDetect' =
           [ran |-> TRUE, text |-> text, categoryBefore |-> category,
            tagsBefore |-> tags]

\* processImageWithOCR: the worker is created, loaded and initialized and
\* recognize resolves with the text (ok), or one of these awaits rejects
ImageRecognized(ok, text) ==
    /\ upTask.pc = "imageRecognize"
    /\ IF ok
       THEN /\ upExtractedText' = text
            /\ DetectCategory(text)
            /\ upTask' = [pc |-> "imageTerminate"]
            /\ UNCHANGED <<upError, upIsProcessing>>
       ELSE /\ upError' = <<"Failed to process image text. Please try again.">>
            /\ upIsProcessing' = FALSE
            /\ upTask' = NoTask
            /\ UNCHANGED <<upExtractedText, category, tags>>
            /\ lastDetect' = NoDetect
    /\ UNCHANGED <<modalOpen, file, title, newTag, isUploading, upSubmit, nSubmits>>
    /\ UNCHANGED backendState
    /\ UNCHANGED nonUploadVars

\* processImageWithOCR: worker.terminate resolves or rejects, then finally
ImageTerminated(ok) ==
    /\ upTask.pc = "imageTerminate"
    /\ upError' = IF ok THEN upError
                  ELSE <<"Failed to process image text. Please try again.">>
    /\ upIsProcessing' = FALSE
    /\ upTask' = NoTask
    /\ UNCHANGED <<modalOpen, file, title, category, tags, newTag, isUploading,
                   upExtractedText, upSubmit, nSubmits>>
    /\ lastDetect' = NoDetect
    /\ UNCHANGED backendState
    /\ UNCHANGED nonUploadVars

\* processPDFWithExtraction: the page loop has ended with the text of the
\* pages (ok), or loading the document or reading a page has rejected
PdfExtracted(ok, text) ==
    /\ upTask.pc = "pdfExtract"
    /\ IF ok
       THEN /\ upExtractedText' = Trim(text)
            /\ IF Len(Trim(text)) > 0
               THEN DetectCategory(text)
               ELSE /\ UNCHANGED <<category, tags>>
                    /\ lastDetect' = NoDetect
            /\ UNCHANGED upError
       ELSE /\ upError' = <<"Failed to extract text from PDF. Using the file as is.">>
            /\ UNCHANGED <<upExtractedText, category, tags>>
            /\ lastDetect' = NoDetect
    /\ upIsProcessing' = FALSE
    /\ upTask' = NoTask
    /\ UNCHANGED <<modalOpen, file, title, newTag, isUploading, upSubmit, nSubmits>>
    /\ UNCHANGED backendState
    /\ UNCHANGED nonUploadVars

\* The category select
SetCategory(c) ==
    /\ modalOpen
    /\ UserAtWork
    /\ category' = c
    /\ UNCHANGED <<modalOpen, file, title, tags, newTag, isUploading, upIsProcessing,
                   upExtractedText, upError, upTask, upSubmit, nSubmits>>
    /\ lastDetect' = NoDetect
    /\ UNCHANGED backendState
    /\ UNCHANGED nonUploadVars

\* The tag field
SetNewTag(t) ==
    /\ modalOpen
    /\ UserAtWork
    /\ newTag' = t
    /\ UNCHANGED <<modalOpen, file, title, category, tags, isUploading, upIsProcessing,
                   upExtractedText, upError, upTask, upSubmit, nSubmits>>
    /\ lastDetect' = NoDetect
    /\ UNCHANGED backendState
    /\ UNCHANGED nonUploadVars

\* handleAddTag
HandleAddTag ==
    /\ modalOpen
    /\ UserAtWork
    /\ IF Trim(newTag) # <<>> /\ ~InSeq(Trim(newTag), tags)
       THEN /\ tags' = Append(tags, Trim(newTag))
            /\ newTag' = <<>>
       ELSE UNCHANGED <<tags, newTag>>
    /\ UNCHANGED <<modalOpen, file, title, category, isUploading, upIsProcessing,
                   upExtractedText, upError, upTask, upSubmit, nSubmits>>
    /\ lastDetect' = NoDetect
    /\ UNCHANGED backendState
    /\ UNCHANGED nonUploadVars

\* handleRemoveTag
HandleRemoveTag(tagToRemove) ==
    /\ modalOpen
    /\ UserAtWork
    /\ InSeq(tagToRemove, tags)
    /\ LET Other(tag) == tag # tagToRemove
       IN  tags' = SelectSeq(tags, Other)
    /\ UNCHANGED <<modalOpen, file, title, category, newTag, isUploading, upIsProcessing,
                   upExtractedText, upError, upTask, upSubmit, nSubmits>>
    /\ lastDetect' = NoDetect
    /\ UNCHANGED backendState
    /\ UNCHANGED nonUploadVars

\* handleSubmit up to its first await; the submit button is disabled while
\* uploading or processing and without a file
HandleSubmit ==
    /\ modalOpen
    /\ UserAtWork
    /\ ~isUploading /\ ~upIsProcessing /\ file # NoFile
    /\ IF title = <<>>
       THEN /\ upError' = <<"Please provide a file and title">>
            /\ UNCHANGED <<isUploading, upSubmit, nSubmits>>
       ELSE IF authUser = NoUser
       THEN /\ upError' = <<"User is not authenticated. Please log in.">>
            /\ UNCHANGED <<isUploading, upSubmit, nSubmits>>
       ELSE /\ nSubmits' = nSubmits + 1
            /\ isUploading' = TRUE
            /\ upError' = <<>>
            /\ upSubmit' =
                   [pc |-> "upload", user |-> authUser, file |-> file, title |-> title,
                    category |-> category, extractedText |-> upExtractedText,
                    tags |-> tags,
                    filePath |-> FilePath(authUser, ToString(nSubmits + 1),
                                          SplitLast(file.name, ".")),
                    noteId |-> NoNote, mounted |-> TRUE, log |-> <<>>]
    /\ UNCHANGED <<modalOpen, file, title, category, tags, newTag, upIsProcessing,
                   upExtractedText, upTask>>
    /\ lastDetect' = NoDetect
    /\ UNCHANGED backendState
    /\ UNCHANGED nonUploadVars

\* fetchNotes up to its await
FetchNotesCall(user) ==
    IF user = NoUser
    THEN UNCHANGED <<dashError, fetching>>
    ELSE /\ dashError' = NULL
         /\ fetching' = fetching + 1

\* handleSubmit: catch and finally (they set the state of the modal that made
\* the call, as long as it is mounted)
SubmitFailed(step) ==
    /\ upSubmit' = [upSubmit EXCEPT !.pc = "none",
                                    !.log = @ \o <<[step |-> step, ok |-> FALSE],
                                                   [step |-> "catch", ok |-> TRUE]>>]
    /\ IF upSubmit.mounted
       THEN /\ upError' = <<"Failed to upload note. Please try again.">>
            /\ isUploading' = FALSE
       ELSE UNCHANGED <<upError, isUploading>>
    /\ UNCHANGED <<modalOpen, file, title, category, tags, newTag, upIsProcessing,
                   upExtractedText, upTask>>
    /\ lastDetect' = NoDetect
    /\ UNCHANGED dashVars

\* handleSubmit: onUploadSuccess (the Dashboard unmounts the modal) and finally
SubmitSucceeded(step) ==
    /\ upSubmit' = [upSubmit EXCEPT !.pc = "none",
                                    !.log = @ \o <<[step |-> step, ok |-> TRUE],
                                                   [step |-> "onUploadSuccess", ok |-> TRUE]>>]
    /\ modalOpen' = FALSE
    /\ ModalFresh
    /\ FetchNotesCall(upSubmit.user)
    /\ UNCHANGED <<notes, filteredNotes, searchTerm, selectedCategory, selectedTag,
                   isLoading, deleteConfirmation, effectPending, dashDelete>>

\* handleSubmit going on to the insert when the storage upload has failed
StorageUploadedErrorIgnored(ok) ==
    /\ upSubmit.pc = "upload"
    /\ storageFiles' = IF ok THEN storageFiles \cup {upSubmit.filePath} ELSE storageFiles
    /\ upSubmit' = [upSubmit EXCEPT !.pc = "insertNote",
                                    !.log = Append(@, [step |-> "upload", ok |-> ok])]
    /\ UNCHANGED modalOpen
    /\ UNCHANGED modalState
    /\ lastDetect' = NoDetect
    /\ UNCHANGED dashVars
    /\ UNCHANGED <<dbNotes, dbNoteTags, nSubmits>>
    /\ UNCHANGED nonModalVars

\* handleSubmit: the storage upload answers
StorageUploaded(ok) ==
    /\ upSubmit.pc = "upload"
    /\ IF ok
       THEN /\ storageFiles' = storageFiles \cup {upSubmit.filePath}
            /\ upSubmit' = [upSubmit EXCEPT !.pc = "insertNote",
                                            !.log = Append(@, [step |-> "upload", ok |-> TRUE])]
            /\ UNCHANGED modalOpen
            /\ UNCHANGED modalState
            /\ lastDetect' = NoDetect
            /\ UNCHANGED dashVars
       ELSE /\ SubmitFailed("upload")
            /\ UNCHANGED storageFiles
    /\ UNCHANGED <<dbNotes, dbNoteTags, nSubmits>>
    /\ UNCHANGED nonModalVars

\* handleSubmit: the insert into notes answers
NoteInserted(ok) ==
    /\ upSubmit.pc = "insertNote"
    /\ IF ok
       THEN /\ dbNotes' = Append(dbNotes,
                   NoteRow(ToString(Len(dbNotes) + 1), upSubmit.user, upSubmit,
                           getPublicUrl(upSubmit.filePath)))
            /\ IF Len(upSubmit.tags) > 0
               THEN /\ upSubmit' = [upSubmit EXCEPT !.pc = "insertTags",
                                                    !.noteId = ToString(Len(dbNotes) + 1),
                                                    !.log = Append(@, [step |-> "insertNote",
                                                                       ok |-> TRUE])]
                    /\ UNCHANGED modalOpen
                    /\ UNCHANGED modalState
                    /\ lastDetect' = NoDetect
                    /\ UNCHANGED dashVars
               ELSE SubmitSucceeded("insertNote")
       ELSE /\ SubmitFailed("insertNote")
            /\ UNCHANGED dbNotes
    /\ UNCHANGED <<storageFiles, dbNoteTags, nSubmits>>
    /\ UNCHANGED nonModalVars

\* handleSubmit: the insert into note_tags answers
TagsInserted(ok) ==
    /\ upSubmit.pc = "insertTags"
    /\ IF ok
       THEN /\ dbNoteTags' = dbNoteTags \o
                   [i \in 1..Len(upSubmit.tags) |->
                       [note_id |-> upSubmit.noteId, tag |-> upSubmit.tags[i]]]
            /\ SubmitSucceeded("insertTags")
       ELSE /\ SubmitFailed("insertTags")
            /\ UNCHANGED dbNoteTags
    /\ UNCHANGED <<storageFiles, dbNotes, nSubmits>>
    /\ UNCHANGED nonModalVars

\* NoteViewer: what the page renders for a note
RenderedViewer(note) ==
    IF note.fileType = "pdf" /\ note.fileUrl \notin {NULL, <<>>} THEN "PDFViewer"
    ELSE IF note.fileType = "markdown" /\ note.content \notin {NULL, <<>>} THEN "MarkdownViewer"
    ELSE IF note.fileType = "image" /\ note.fileUrl \notin {NULL, <<>>} THEN "image"
    ELSE IF note.fileType = "text" /\ note.content \notin {NULL, <<>>} THEN "text"
    ELSE "nothing"

\* NoteViewer.fetchNote: the Note made from a row and its tag rows
TransformedNote(row, tagRows) ==
    LET OfNote(t) == t.note_id = row.id
        mine == SelectSeq(tagRows, OfNote)
    IN  [id |-> row.id, userId |-> row.user_id, title |-> row.title,
         content |-> row.content, fileUrl |-> row.file_url, fileType |-> row.file_type,
         category |-> row.category, tags |-> [i \in 1..Len(mine) |-> mine[i].tag],
         summary |-> row.summary]

UploadNext ==
    \/ OpenModal
    \/ CloseModal
    \/ \E f \in DroppedFiles : OnDrop(f)
    \/ ReplaceFile
    \/ \E ok \in BOOLEAN, t \in ReadTexts : ImageRecognized(ok, t)
    \/ \E ok \in BOOLEAN : ImageTerminated(ok)
    \/ \E ok \in BOOLEAN, t \in ReadTexts : PdfExtracted(ok, t)
    \/ \E c \in CategoryChoices : SetCategory(c)
    \/ \E t \in TagInputs : SetNewTag(t)
    \/ HandleAddTag
    \/ \E i \in 1..Len(tags) : HandleRemoveTag(tags[i])
    \/ HandleSubmit
    \/ \E ok \in BOOLEAN : StorageUploaded(ok)
    \/ \E ok \in BOOLEAN : NoteInserted(ok)
    \/ \E ok \in BOOLEAN : TagsInserted(ok)



\* The tag lists and texts of a form that is submitted: no tag or mine, no
\* text or "a novel algorithm exam"
SubmittedTagLists == { <<>>, << <<"m", "i", "n", "e">> >> }

SubmittedTexts == { <<>>, <<"a", " ", "n", "o", "v", "e", "l", " ", "a", "l", "g", "o", "r", "i", "t", "h", "m", " ", "e", "x", "a", "m">> }

\* The modal with a file dropped and read and the form filled in
SubmitInit ==
    /\ modalOpen = TRUE
    /\ file \in DroppedFiles
    /\ title = SplitFirst(file.name, ".")
    /\ category \in CategoryChoices \cup {<<>>}
    /\ tags \in SubmittedTagLists
    /\ newTag = <<>>
    /\ isUploading = FALSE
    /\ upIsProcessing = FALSE
    /\ upExtractedText \in SubmittedTexts
    /\ upError = <<>>
    /\ upTask = NoTask
    /\ upSubmit = NoSubmit
    /\ nSubmits = 0
    /\ lastDetect = NoDetect

SubmitNext ==
    \/ HandleSubmit
    \/ \E ok \in BOOLEAN : StorageUploaded(ok)
    \/ \E ok \in BOOLEAN : NoteInserted(ok)
    \/ \E ok \in BOOLEAN : TagsInserted(ok)
    \/ CloseModal

\* The options of the category select
CategoryOptions ==
    { <<>>, <<"M", "a", "t", "h">>, <<"S", "c", "i", "e", "n", "c", "e">>, <<"H", "i", "s", "t", "o", "r", "y">>, <<"L", "i", "t", "e", "r", "a", "t", "u", "r", "e">>,
      <<"C", "o", "m", "p", "u", "t", "e", "r", " ", "S", "c", "i", "e", "n", "c", "e">>, <<"O", "t", "h", "e", "r">> }

\* Texts detectCategory is applied to:
\*   "War and Math", "a novel algorithm exam", "software", "EQUATION",
\*   "Poetry of the 19th century", "Chemistry of computers",
\*   "programming homework project", "Biology lecture notes review summary",
\*   "hello", ""
DetectTexts ==
    { <<"W", "a", "r", " ", "a", "n", "d", " ", "M", "a", "t", "h">>,
      <<"a", " ", "n", "o", "v", "e", "l", " ", "a", "l", "g", "o", "r", "i", "t", "h", "m", " ", "e", "x", "a", "m">>,
      <<"s", "o", "f", "t", "w", "a", "r", "e">>,
      <<"E", "Q", "U", "A", "T", "I", "O", "N">>,
      <<"P", "o", "e", "t", "r", "y", " ", "o", "f", " ", "t", "h", "e", " ", "1", "9", "t", "h", " ", "c", "e", "n", "t", "u", "r", "y">>,
      <<"C", "h", "e", "m", "i", "s", "t", "r", "y", " ", "o", "f", " ", "c", "o", "m", "p", "u", "t", "e", "r", "s">>,
      <<"p", "r", "o", "g", "r", "a", "m", "m", "i", "n", "g", " ", "h", "o", "m", "e", "w", "o", "r", "k", " ", "p", "r", "o", "j", "e", "c", "t">>,
      <<"B", "i", "o", "l", "o", "g", "y", " ", "l", "e", "c", "t", "u", "r", "e", " ", "n", "o", "t", "e", "s", " ", "r", "e", "v", "i", "e", "w", " ", "s", "u", "m", "m", "a", "r", "y">>,
      <<"h", "e", "l", "l", "o">>,
      <<>> }

\* The tag lists the user has made before the file is read: none, mine, exam
TagListsBefore == { <<>>, << <<"m", "i", "n", "e">> >>, << <<"e", "x", "a", "m">> >> }

\* The modal with an image or a PDF dropped and being read, for any category
\* selected and tags added by the user before
DetectInit ==
    /\ modalOpen = TRUE
    /\ \E f \in DroppedFiles :
          /\ Includes(f.type, <<"i", "m", "a", "g", "e">>) \/ Includes(f.type, <<"p", "d", "f">>)
          /\ file = f
          /\ title = SplitFirst(f.name, ".")
          /\ upTask = IF Includes(f.type, <<"i", "m", "a", "g", "e">>)
                      THEN [pc |-> "imageRecognize"] ELSE [pc |-> "pdfExtract"]
    /\ category \in CategoryOptions
    /\ tags \in TagListsBefore
    /\ newTag = <<>>
    /\ isUploading = FALSE
    /\ upIsProcessing = TRUE
    /\ upExtractedText = <<>>
    /\ upError = <<>>
    /\ upSubmit = NoSubmit
    /\ storageFiles = {}
    /\ dbNotes = <<>>
    /\ dbNoteTags = <<>>
    /\ nSubmits = 0
    /\ lastDetect = NoDetect

DetectNext ==
    \/ \E ok \in BOOLEAN, t \in DetectTexts : ImageRecognized(ok, t)
    \/ \E ok \in BOOLEAN : ImageTerminated(ok)
    \/ \E ok \in BOOLEAN, t \in DetectTexts : PdfExtracted(ok, t)


(***************************************************************************)
(* Dashboard (pages/Dashboard)                                             *)
(***************************************************************************)
\* Bound on the number of fetchNotes calls waiting for the answer
MaxFetches == 1

\* The rows of notes and note_tags the user has when the Dashboard is mounted:
\*   1: "Calc",  content "limits exam",   category Math,    tags exam
\*   2: "b",     no content,              no category,      no tag
\*   3: "War",   content "history Notes", category History, tags exam, mine
SeedNotes ==
    << [id |-> "1", user_id |-> "u1", title |-> <<"C", "a", "l", "c">>,
        file_url |-> getPublicUrl(FilePath("u1", "1", <<"p", "d", "f">>)), file_type |-> "pdf",
        category |-> <<"M", "a", "t", "h">>, content |-> <<"l", "i", "m", "i", "t", "s", " ", "e", "x", "a", "m">>,
        summary |-> <<"l", "i", "m", "i", "t", "s", " ", "e", "x", "a", "m">>],
       [id |-> "2", user_id |-> "u1", title |-> <<"b">>,
        file_url |-> getPublicUrl(FilePath("u1", "2", <<"p", "n", "g">>)), file_type |-> "image",
        category |-> NULL, content |-> NULL, summary |-> NULL],
       [id |-> "3", user_id |-> "u1", title |-> <<"W", "a", "r">>,
        file_url |-> getPublicUrl(FilePath("u1", "3", <<"p", "d", "f">>)), file_type |-> "pdf",
        category |-> <<"H", "i", "s", "t", "o", "r", "y">>, content |-> <<"h", "i", "s", "t", "o", "r", "y", " ", "N", "o", "t", "e", "s">>,
        summary |-> <<"h", "i", "s", "t", "o", "r", "y", " ", "N", "o", "t", "e", "s">>] >>

SeedNoteTags ==
    << [note_id |-> "1", tag |-> <<"e", "x", "a", "m">>],
       [note_id |-> "3", tag |-> <<"e", "x", "a", "m">>],
       [note_id |-> "3", tag |-> <<"m", "i", "n", "e">>] >>

SeedFiles == { FilePath("u1", "1", <<"p", "d", "f">>), FilePath("u1", "2", <<"p", "n", "g">>), FilePath("u1", "3", <<"p", "d", "f">>) }

\* What the user types into the search field: "", "EXAM", "a"
SearchTerms == { <<>>, <<"E", "X", "A", "M">>, <<"a">> }

\* A value a condition of the code takes as true
Truthy(v) == v # NULL /\ v # <<>>

Reverse(seq) == [i \in 1..Len(seq) |-> seq[Len(seq) + 1 - i]]

\* The categories and the tags the selects offer
Categories(ns) == { ns[i].category : i \in { j \in 1..Len(ns) : Truthy(ns[j].category) } }

Tags(ns) == UNION { { ns[i].tags[k] : k \in 1..Len(ns[i].tags) } : i \in 1..Len(ns) }

\* The filter effect: the predicate of the search filter
MatchesSearch(note, term) ==
    \/ Includes(ToLowerCase(note.title), term)
    \/ note.content # NULL /\ note.content # <<>> /\ Includes(ToLowerCase(note.content), term)
    \/ note.category # NULL /\ note.category # <<>> /\ Includes(ToLowerCase(note.category), term)
    \/ \E k \in 1..Len(note.tags) : Includes(ToLowerCase(note.tags[k]), term)

\* The filter effect without its category filter
FilterNotesNoCategory(ns, search, cat, tag) ==
    LET BySearch(note) == MatchesSearch(note, ToLowerCase(search))
        ByTag(note) == InSeq(tag, note.tags)
        afterSearch == IF Truthy(search) THEN SelectSeq(ns, BySearch) ELSE ns
    IN  IF Truthy(tag) THEN SelectSeq(afterSearch, ByTag) ELSE afterSearch

\* The filter effect: the list it sets filteredNotes to
FilterNotes(ns, search, cat, tag) ==
    LET BySearch(note) == MatchesSearch(note, ToLowerCase(search))
        ByCategory(note) == note.category = cat
        ByTag(note) == InSeq(tag, note.tags)
        afterSearch == IF Truthy(search) THEN SelectSeq(ns, BySearch) ELSE ns
        afterCategory == IF Truthy(cat) THEN SelectSeq(afterSearch, ByCategory)
                         ELSE afterSearch
    IN  IF Truthy(tag) THEN SelectSeq(afterCategory, ByTag) ELSE afterCategory

\* fetchNotes: the rows of the user, the newest first, as notes
FetchedNotes(user) ==
    LET OfUser(row) == row.user_id = user
        rows == Reverse(SelectSeq(dbNotes, OfUser))
    IN  [i \in 1..Len(rows) |-> TransformedNote(rows[i], dbNoteTags)]

NoDelete == [pc |-> "none", noteId |-> NoNote, notes |-> <<>>, user |-> NoUser]

\* The Dashboard as mounted for a user who has notes; fetchNotes has been
\* called by the effect on user and the filter effect is due
DashInit ==
    /\ notes = <<>>
    /\ filteredNotes = <<>>
    /\ searchTerm = <<>>
    /\ selectedCategory = NULL
    /\ selectedTag = NULL
    /\ isLoading = TRUE
    /\ dashError = NULL
    /\ deleteConfirmation = NoNote
    /\ effectPending = TRUE
    /\ fetching = 0
    /\ dashDelete = NoDelete

\* The backend of a user who has uploaded the notes of SeedNotes
SeededBackend ==
    /\ storageFiles = SeedFiles
    /\ dbNotes = SeedNotes
    /\ dbNoteTags = SeedNoteTags

\* The effect on user: fetchNotes is called
MountFetch ==
    /\ isLoading /\ fetching = 0
    /\ authUser # NoUser
    /\ FetchNotesCall(authUser)
    /\ UNCHANGED <<notes, filteredNotes, searchTerm, selectedCategory, selectedTag,
                   isLoading, deleteConfirmation, effectPending, dashDelete>>
    /\ UNCHANGED <<nonModalVars, uploadVars>>

\* fetchNotes: the select answers
FetchNotesDone(ok) ==
    /\ fetching > 0
    /\ fetching' = fetching - 1
    /\ IF ok
       THEN /\ notes' = FetchedNotes(authUser)
            /\ filteredNotes' = FetchedNotes(authUser)
            /\ effectPending' = TRUE
            /\ UNCHANGED dashError
       ELSE /\ dashError' = <<"Failed to load notes. Please try again.">>
            /\ UNCHANGED <<notes, filteredNotes, effectPending>>
    /\ isLoading' = FALSE
    /\ UNCHANGED <<searchTerm, selectedCategory, selectedTag, deleteConfirmation,
                   dashDelete>>
    /\ UNCHANGED <<nonModalVars, uploadVars>>

\* The filter effect runs with the values of the last render
FilterEffect ==
    /\ effectPending
    /\ filteredNotes' = FilterNotes(notes, searchTerm, selectedCategory, selectedTag)
    /\ effectPending' = FALSE
    /\ UNCHANGED <<notes, searchTerm, selectedCategory, selectedTag, isLoading,
                   dashError, deleteConfirmation, fetching, dashDelete>>
    /\ UNCHANGED <<nonModalVars, uploadVars>>

\* The search field
SetSearchTerm(term) ==
    /\ searchTerm' = term
    /\ effectPending' = (effectPending \/ term # searchTerm)
    /\ UNCHANGED <<notes, filteredNotes, selectedCategory, selectedTag, isLoading,
                   dashError, deleteConfirmation, fetching, dashDelete>>
    /\ UNCHANGED <<nonModalVars, uploadVars>>

\* The category select: all categories or one of those of notes
SetSelectedCategory(cat) ==
    /\ cat = NULL \/ cat \in Categories(notes)
    /\ selectedCategory' = cat
    /\ effectPending' = (effectPending \/ cat # selectedCategory)
    /\ UNCHANGED <<notes, filteredNotes, searchTerm, selectedTag, isLoading,
                   dashError, deleteConfirmation, fetching, dashDelete>>
    /\ UNCHANGED <<nonModalVars, uploadVars>>

\* The tag select: all tags or one of those of notes
SetSelectedTag(tag) ==
    /\ tag = NULL \/ tag \in Tags(notes)
    /\ selectedTag' = tag
    /\ effectPending' = (effectPending \/ tag # selectedTag)
    /\ UNCHANGED <<notes, filteredNotes, searchTerm, selectedCategory, isLoading,
                   dashError, deleteConfirmation, fetching, dashDelete>>
    /\ UNCHANGED <<nonModalVars, uploadVars>>

\* The delete button of a note shown, and Cancel in the dialog
SetDeleteConfirmation(noteId) ==
    /\ dashDelete.pc = "none"
    /\ \/ noteId = NoNote /\ deleteConfirmation # NoNote
       \/ \E i \in 1..Len(filteredNotes) : filteredNotes[i].id = noteId
    /\ deleteConfirmation' = noteId
    /\ UNCHANGED <<notes, filteredNotes, searchTerm, selectedCategory, selectedTag,
                   isLoading, dashError, effectPending, fetching, dashDelete>>
    /\ UNCHANGED <<nonModalVars, uploadVars>>

\* handleDeleteNote up to its first await (one call is in flight at a time)
HandleDeleteNote ==
    /\ deleteConfirmation # NoNote
    /\ dashDelete.pc = "none"
    /\ authUser # NoUser
    /\ dashError' = NULL
    /\ dashDelete' = [pc |-> "deleteRow", noteId |-> deleteConfirmation,
                      notes |-> notes, user |-> authUser]
    /\ UNCHANGED <<notes, filteredNotes, searchTerm, selectedCategory, selectedTag,
                   isLoading, deleteConfirmation, effectPending, fetching>>
    /\ UNCHANGED <<nonModalVars, uploadVars>>

\* A handleDeleteNote that leaves the list as it was
DeleteFinishKeepsNote ==
    /\ notes' = dashDelete.notes
    /\ deleteConfirmation' = NoNote
    /\ effectPending' = TRUE
    /\ dashDelete' = NoDelete

\* handleDeleteNote: the list is updated from the notes the call closed over
DeleteFinish ==
    /\ LET Other(note) == note.id # dashDelete.noteId
       IN  notes' = SelectSeq(dashDelete.notes, Other)
    /\ deleteConfirmation' = NoNote
    /\ effectPending' = TRUE
    /\ dashDelete' = NoDelete

\* handleDeleteNote: the file path it removes from the storage for a note
DeletedFilePath(note, user) ==
    <<"notes", "/", user, "/">> \o SplitLast(note.fileUrl, "/")

\* handleDeleteNote: the delete from notes answers; the rows of note_tags go
\* with the note (ON DELETE CASCADE)
DeleteRowDone(ok) ==
    /\ dashDelete.pc = "deleteRow"
    /\ IF ok
       THEN LET Kept(row) == ~(row.id = dashDelete.noteId /\ row.user_id = dashDelete.user)
                KeptTag(t) == \E i \in 1..Len(dbNotes) : dbNotes[i].id = t.note_id /\ Kept(dbNotes[i])
                found == { i \in 1..Len(dashDelete.notes) :
                              dashDelete.notes[i].id = dashDelete.noteId }
            IN  /\ dbNotes' = SelectSeq(dbNotes, Kept)
                /\ dbNoteTags' = SelectSeq(dbNoteTags, KeptTag)
                /\ IF found # {} /\ Truthy(dashDelete.notes[CHOOSE i \in found : TRUE].fileUrl)
                   THEN /\ dashDelete' = [dashDelete EXCEPT !.pc = "removeFile"]
                        /\ UNCHANGED <<notes, deleteConfirmation, effectPending>>
                   ELSE DeleteFinish
                /\ UNCHANGED dashError
       ELSE /\ dashError' = <<"Failed to delete note. Please try again.">>
            /\ dashDelete' = NoDelete
            /\ UNCHANGED <<notes, deleteConfirmation, effectPending, dbNotes, dbNoteTags>>
    /\ UNCHANGED <<filteredNotes, searchTerm, selectedCategory, selectedTag, isLoading,
                   fetching>>
    /\ UNCHANGED <<nonModalVars, modalOpen, modalState, lastDetect, upSubmit,
                   storageFiles, nSubmits>>

\* handleDeleteNote: the storage answers (an error is only logged)
RemoveFileDone(ok) ==
    /\ dashDelete.pc = "removeFile"
    /\ LET note == dashDelete.notes[CHOOSE i \in 1..Len(dashDelete.notes) :
                                       dashDelete.notes[i].id = dashDelete.noteId]
       IN  storageFiles' = IF ok THEN storageFiles \ {DeletedFilePath(note, dashDelete.user)}
                           ELSE storageFiles
    /\ DeleteFinish
    /\ UNCHANGED <<filteredNotes, searchTerm, selectedCategory, selectedTag, isLoading,
                   dashError, fetching>>
    /\ UNCHANGED <<nonModalVars, modalOpen, modalState, lastDetect, upSubmit, dbNotes,
                   dbNoteTags, nSubmits>>

\* onUploadSuccess, called by the modal after a note has been stored
OnUploadSuccess ==
    /\ modalOpen
    /\ fetching < MaxFetches
    /\ modalOpen' = FALSE
    /\ ModalFresh
    /\ FetchNotesCall(authUser)
    /\ UNCHANGED <<notes, filteredNotes, searchTerm, selectedCategory, selectedTag,
                   isLoading, deleteConfirmation, effectPending, dashDelete>>
    /\ UNCHANGED <<upSubmit, nSubmits>>
    /\ UNCHANGED backendState
    /\ UNCHANGED nonModalVars

DashNext ==
    \/ MountFetch
    \/ \E ok \in BOOLEAN : FetchNotesDone(ok)
    \/ FilterEffect
    \/ \E term \in SearchTerms : SetSearchTerm(term)
    \/ \E cat \in {NULL} \cup Categories(notes) : SetSelectedCategory(cat)
    \/ \E tag \in {NULL} \cup Tags(notes) : SetSelectedTag(tag)
    \/ \E id \in {NoNote} \cup { filteredNotes[i].id : i \in 1..Len(filteredNotes) } :
          SetDeleteConfirmation(id)
    \/ HandleDeleteNote
    \/ \E ok \in BOOLEAN : DeleteRowDone(ok)
    \/ \E ok \in BOOLEAN : RemoveFileDone(ok)
    \/ OpenModal
    \/ OnUploadSuccess

(***************************************************************************)
(* App: the routes, ProtectedRoute, and AuthProvider (contexts/AuthContext) *)
(***************************************************************************)
\* Bound on the number of auth state changes not yet delivered
MaxEvents == 2

Users == {"u1"}

\* The paths of the routes: the two protected ones, login, signup and any other
ProtectedPaths == {"/", "/notes/:noteId"}

Paths == ProtectedPaths \cup {"/login", "/signup", "*"}

\* ProtectedRoute without its check of user
ProtectedRouteNoUserCheck(user, loading) ==
    IF loading THEN "spinner" ELSE "children"

\* ProtectedRoute: what it renders
ProtectedRoute(user, loading) ==
    IF loading THEN "spinner"
    ELSE IF user = NoUser THEN "redirect"
    ELSE "children"

\* Routes: what the route of a path renders
RouteElement(path, user, loading) ==
    IF path \in ProtectedPaths THEN ProtectedRoute(user, loading)
    ELSE IF path = "/login" THEN "Login"
    ELSE IF path = "/signup" THEN "Signup"
    ELSE "NotFound"

\* The page is rendered again with the new state
Rendered == routeView' = RouteElement(location', authUser', authLoading')

\* The app as loaded at some path, with or without a stored session; the auth
\* client may call the callback with the initial session
AuthInit ==
    /\ authUser = NoUser
    /\ authLoading = TRUE
    /\ session \in Users \cup {NoUser}
    /\ sessionPending = TRUE
    /\ authEvents \in {<<>>, <<session>>}
    /\ location \in Paths
    /\ routeView = RouteElement(location, authUser, authLoading)
    /\ logoutPc = "none"
    /\ lastAuthEvent = "none"

\* The state in which the Dashboard is shown to a user who has logged in
LoggedIn ==
    /\ authUser = "u1"
    /\ authLoading = FALSE
    /\ session = "u1"
    /\ sessionPending = FALSE
    /\ authEvents = <<>>
    /\ location = "/"
    /\ routeView = "children"
    /\ logoutPc = "none"
    /\ lastAuthEvent = "none"

\* AuthProvider: getSession() answers
GetSessionDone ==
    /\ sessionPending
    /\ sessionPending' = FALSE
    /\ authUser' = session
    /\ authLoading' = FALSE
    /\ lastAuthEvent' = "none"
    /\ UNCHANGED <<session, authEvents, location, logoutPc>>
    /\ UNCHANGED nonAuthVars
    /\ Rendered

\* AuthProvider: the onAuthStateChange callback
AuthStateChange ==
    /\ authEvents # <<>>
    /\ authEvents' = Tail(authEvents)
    /\ authUser' = Head(authEvents)
    /\ authLoading' = FALSE
    /\ lastAuthEvent' = IF Head(authEvents) = NoUser THEN "no session" ELSE "session"
    /\ UNCHANGED <<session, sessionPending, location, logoutPc>>
    /\ UNCHANGED nonAuthVars
    /\ Rendered

\* The auth client: a user signs in (login or signup on the pages of that name)
SignedIn(user) ==
    /\ session = NoUser
    /\ location \in {"/login", "/signup"}
    /\ Len(authEvents) < MaxEvents
    /\ session' = user
    /\ authEvents' = Append(authEvents, user)
    /\ lastAuthEvent' = "none"
    /\ UNCHANGED <<authUser, authLoading, sessionPending, location, routeView, logoutPc>>
    /\ UNCHANGED nonAuthVars

\* The auth client: the session ends (it expires or is signed out elsewhere)
SessionEnded ==
    /\ session # NoUser
    /\ Len(authEvents) < MaxEvents
    /\ session' = NoUser
    /\ authEvents' = Append(authEvents, NoUser)
    /\ lastAuthEvent' = "none"
    /\ UNCHANGED <<authUser, authLoading, sessionPending, location, routeView, logoutPc>>
    /\ UNCHANGED nonAuthVars

\* Layout.handleLogout up to its await: logout() calls signOut, which ends
\* the session (ok) or fails
HandleLogout(ok) ==
    /\ routeView = "children"
    /\ logoutPc = "none"
    /\ Len(authEvents) < MaxEvents
    /\ IF ok /\ session # NoUser
       THEN /\ session' = NoUser
            /\ authEvents' = Append(authEvents, NoUser)
       ELSE UNCHANGED <<session, authEvents>>
    /\ logoutPc' = IF ok THEN "navigate" ELSE "catch"
    /\ lastAuthEvent' = "none"
    /\ UNCHANGED <<authUser, authLoading, sessionPending, location, routeView>>
    /\ UNCHANGED nonAuthVars

\* Layout.handleLogout after its await: navigate('/login'), or the catch
LogoutDone ==
    /\ logoutPc # "none"
    /\ logoutPc' = "none"
    /\ location' = IF logoutPc = "navigate" THEN "/login" ELSE location
    /\ lastAuthEvent' = "none"
    /\ UNCHANGED <<authUser, authLoading, session, sessionPending, authEvents>>
    /\ UNCHANGED nonAuthVars
    /\ Rendered

\* The user follows a link or enters a path
GoTo(path) ==
    /\ path # location
    /\ location' = path
    /\ lastAuthEvent' = "none"
    /\ UNCHANGED <<authUser, authLoading, session, sessionPending, authEvents, logoutPc>>
    /\ UNCHANGED nonAuthVars
    /\ Rendered

\* <Navigate to="/login" />
NavigateToLogin ==
    /\ routeView = "redirect"
    /\ location' = "/login"
    /\ lastAuthEvent' = "none"
    /\ UNCHANGED <<authUser, authLoading, session, sessionPending, authEvents, logoutPc>>
    /\ UNCHANGED nonAuthVars
    /\ Rendered

AuthNext ==
    \/ GetSessionDone
    \/ AuthStateChange
    \/ \E user \in Users : SignedIn(user)
    \/ SessionEnded
    \/ \E ok \in BOOLEAN : HandleLogout(ok)
    \/ LogoutDone
    \/ \E path \in Paths : GoTo(path)
    \/ NavigateToLogin


\* The app with a user logged in, at the Dashboard, before anything is loaded
(***************************************************************************)
(* NoteViewer (src/pages/NoteViewer.tsx): the annotations of the note on   *)
(* the page.  handleAddAnnotation and handleDeleteAnnotation are async:    *)
(* each awaits the backend and then calls setNote with a list built from   *)
(* the `note` of the render the call was made in.  Nothing disables the    *)
(* viewer or the sidebar while a call is waiting, so two calls may overlap.*)
(***************************************************************************)
MaxInserts == 2

AnnotationTexts == {<<"h", "l">>}

SeedAnnotations ==
    <<[id |-> "1", text |-> <<"o", "n", "e">>], [id |-> "2", text |-> <<"t", "w", "o">>]>>

\* uuid: the id the backend will give the row of an insert
NoAnnCall == [pc |-> "idle", note |-> <<>>, arg |-> <<>>, uuid |-> "none"]

NoAnnotation ==
    [ran |-> FALSE, op |-> "none", ok |-> FALSE, before |-> <<>>, arg |-> <<>>,
     newId |-> "none"]

\* The page after fetchNote has loaded the note with its annotations
NoteViewInit ==
    /\ annotations = SeedAnnotations
    /\ dbAnnotations = SeedAnnotations
    /\ nvError = NULL
    /\ annCalls = [c \in Callers |-> NoAnnCall]
    /\ nInserts = 0
    /\ lastAnnotation = NoAnnotation

AnnotationIds(list) == {list[i].id : i \in 1..Len(list)}

WithoutAnnotation(list, annotationId) ==
    SelectSeq(list, LAMBDA a : a.id # annotationId)

\* handleAddAnnotation up to its await: setError(null), then the insert is sent
HandleAddAnnotation(c, text) ==
    /\ annCalls[c].pc = "idle"
    /\ FirstFree(c, annCalls)
    /\ nInserts < MaxInserts
    /\ nInserts' = nInserts + 1
    /\ nvError' = NULL
    /\ annCalls' = [annCalls EXCEPT ![c] = [pc |-> "insert", note |-> annotations,
                                            arg |-> text,
                                            uuid |-> ToString(Len(SeedAnnotations)
                                                              + nInserts + 1)]]
    /\ lastAnnotation' = NoAnnotation
    /\ UNCHANGED <<annotations, dbAnnotations>>
    /\ UNCHANGED nonNoteViewVars

\* The insert answers.  The backend assigns the id of the new row.
AddAnnotationDone(c, ok) ==
    /\ annCalls[c].pc = "insert"
    /\ LET newAnnotation == [id |-> annCalls[c].uuid,
                             text |-> annCalls[c].arg]
       IN  /\ lastAnnotation' = [ran |-> TRUE, op |-> "add", ok |-> ok,
                                 before |-> annotations, arg |-> annCalls[c].arg,
                                 newId |-> newAnnotation.id]
           /\ IF ok
              THEN /\ dbAnnotations' = Append(dbAnnotations, newAnnotation)
                   /\ annotations' = Append(annCalls[c].note, newAnnotation)
                   /\ UNCHANGED nvError
              ELSE /\ nvError' = <<"Failed to add annotation. Please try again.">>
                   /\ UNCHANGED <<annotations, dbAnnotations>>
    /\ annCalls' = [annCalls EXCEPT ![c] = NoAnnCall]
    /\ UNCHANGED nInserts
    /\ UNCHANGED nonNoteViewVars

\* handleDeleteAnnotation up to its await, called from the sidebar entry of an
\* annotation the page shows
HandleDeleteAnnotation(c, annotationId) ==
    /\ annCalls[c].pc = "idle"
    /\ FirstFree(c, annCalls)
    /\ annotationId \in AnnotationIds(annotations)
    /\ nvError' = NULL
    /\ annCalls' = [annCalls EXCEPT ![c] = [pc |-> "delete", note |-> annotations,
                                            arg |-> annotationId, uuid |-> "none"]]
    /\ lastAnnotation' = NoAnnotation
    /\ UNCHANGED <<annotations, dbAnnotations, nInserts>>
    /\ UNCHANGED nonNoteViewVars

\* The delete answers
DeleteAnnotationDone(c, ok) ==
    /\ annCalls[c].pc = "delete"
    /\ lastAnnotation' = [ran |-> TRUE, op |-> "delete", ok |-> ok,
                          before |-> annotations, arg |-> annCalls[c].arg,
                          newId |-> "none"]
    /\ IF ok
       THEN /\ dbAnnotations' = WithoutAnnotation(dbAnnotations, annCalls[c].arg)
            /\ annotations' = WithoutAnnotation(annCalls[c].note, annCalls[c].arg)
            /\ UNCHANGED nvError
       ELSE /\ nvError' = <<"Failed to delete annotation. Please try again.">>
            /\ UNCHANGED <<annotations, dbAnnotations>>
    /\ annCalls' = [annCalls EXCEPT ![c] = NoAnnCall]
    /\ UNCHANGED nInserts
    /\ UNCHANGED nonNoteViewVars

NoteViewNext ==
    \/ \E c \in Callers, text \in AnnotationTexts : HandleAddAnnotation(c, text)
    \/ \E c \in Callers, ok \in BOOLEAN : AddAnnotationDone(c, ok)
    \/ \E c \in Callers, annotationId \in AnnotationIds(annotations) :
          HandleDeleteAnnotation(c, annotationId)
    \/ \E c \in Callers, ok \in BOOLEAN : DeleteAnnotationDone(c, ok)


(***************************************************************************)
(* splitTextIntoChunks (src/lib/pdf-utils.ts)                              *)
(***************************************************************************)
CHUNK_SIZE == 1000

MaxTextLen == 5

MaxChunkSize == 4

SplitAlphabet == {"a", " ", ".", "!"}

RECURSIVE TextsOfLen(_)
TextsOfLen(n) ==
    IF n = 0 THEN {<<>>}
    ELSE {Append(t, ch) : t \in TextsOfLen(n - 1), ch \in SplitAlphabet}

SplitTexts == UNION {TextsOfLen(n) : n \in 0..MaxTextLen}

IsTerminator(ch) == ch \in {".", "!", "?"}

\* Number of leading characters of t that are (terminators = TRUE) or are not
\* (terminators = FALSE) one of . ! ?
RECURSIVE LeadingRun(_, _)
LeadingRun(t, terminators) ==
    IF t = <<>> \/ IsTerminator(Head(t)) # terminators THEN 0
    ELSE 1 + LeadingRun(Tail(t), terminators)

\* text.match(/[^.!?]+[.!?]+/g): the matches from left to right.  A match
\* starts at a character that is no terminator, takes all that follow and then
\* all the terminators after them; a run with no terminator after it matches
\* nothing.
RECURSIVE Sentences(_)
Sentences(t) ==
    IF t = <<>> THEN <<>>
    ELSE IF IsTerminator(Head(t)) THEN Sentences(Tail(t))
    ELSE LET n == LeadingRun(t, FALSE)
             m == LeadingRun(SubSeq(t, n + 1, Len(t)), TRUE)
         IN  IF m = 0 THEN <<>>
             ELSE <<SubSeq(t, 1, n + m)>> \o Sentences(SubSeq(t, n + m + 1, Len(t)))

\* The for loop over the sentences and the push after it
RECURSIVE ChunkLoop(_, _, _, _)
ChunkLoop(sentences, chunks, currentChunk, size) ==
    IF sentences = <<>>
    THEN IF Trim(currentChunk) # <<>> THEN Append(chunks, Trim(currentChunk)) ELSE chunks
    ELSE LET sentence == Head(sentences)
         IN  IF Len(currentChunk) + Len(sentence) > size
             THEN ChunkLoop(Tail(sentences), Append(chunks, Trim(currentChunk)),
                            sentence, size)
             ELSE ChunkLoop(Tail(sentences), chunks,
                            currentChunk \o <<" ">> \o sentence, size)

splitTextIntoChunks(t, size) ==
    ChunkLoop(IF Sentences(t) = <<>> THEN <<t>> ELSE Sentences(t), <<>>, <<>>, size)

SplitIdle ==
    /\ splitText = <<>>
    /\ splitChunkSize = CHUNK_SIZE
    /\ splitChunks = <<>>
    /\ splitDone = FALSE

SplitInit ==
    /\ splitText \in SplitTexts
    /\ splitChunkSize \in 1..MaxChunkSize
    /\ splitChunks = <<>>
    /\ splitDone = FALSE

SplitTextIntoChunks ==
    /\ ~splitDone
    /\ splitChunks' = splitTextIntoChunks(splitText, splitChunkSize)
    /\ splitDone' = TRUE
    /\ UNCHANGED <<splitText, splitChunkSize>>
    /\ UNCHANGED nonSplitVars

SplitNext == SplitTextIntoChunks

(***************************************************************************)
(* PDFChat (src/components/PDFChat.tsx).  The component calls              *)
(* geminiService.setPDFContent when it is mounted and geminiService.chat   *)
(* for every accepted submission; what these calls give back is computed   *)
(* with the operators of the GeminiService section.                        *)
(***************************************************************************)
MaxQuestions == 2

\* Values typed into the input field
ChatInputs == { <<>>, <<" ">>, <<"w", "h", "o">>, <<" ", "w", "h", "y">> }

\* Texts the viewer has extracted: blank, and a document
ChatTexts == { <<" ", "\n">>, <<"d", "o", "c">> }

\* What result.response.text() may give
ChatResponses == ResponseTexts \cup {<<>>}

VersionError == <<"4", "0", "4", " ", "n", "o", "t", " ", "f", "o", "u", "n", "d", " ", "f", "o", "r", " ", "A", "P", "I", " ", "v", "e", "r", "s", "i", "o", "n">>

\* Messages the model request may reject with
ChatApiErrors == ApiErrors \cup {VersionError, <<"4", "2", "9">>}

ChatApiOutcomes ==
    [kind : {"ok"}, text : ChatResponses]
        \cup [kind : {"empty"}, text : {<<>>}]
        \cup [kind : {"reject"}, text : ChatApiErrors]

\* geminiService.chat as its caller sees it: first is the outcome of the first
\* request, second that of the retry, if one is made
ChatResult(first, second) ==
    IF first.kind = "ok" THEN [thrown |-> FALSE, text |-> first.text]
    ELSE LET caught == InnerCatch(OutcomeError(first, TRUE))
         IN  IF ~caught.retry
             THEN [thrown |-> TRUE, text |-> OuterCatch(caught.message).lastError]
             ELSE IF second.kind = "ok"
                  THEN [thrown |-> FALSE, text |-> second.text]
                  ELSE [thrown |-> TRUE,
                        text |-> OuterCatch(OutcomeError(second, FALSE)).lastError]

\* Whether geminiService.setPDFContent(pdfText) throws
SetPDFContentThrows(pdfText) == Len(pdfText) = 0 \/ Len(Trim(pdfText)) = 0

NoChatSubmit ==
    [pc |-> "none", question |-> <<>>, sawInput |-> <<>>, sawLoading |-> FALSE,
     sawApiReady |-> FALSE]

NoReply == [ran |-> FALSE, first |-> [kind |-> "none", text |-> <<>>], thrown |-> FALSE]

ApiConfigurationMessage ==
    <<"There seems to be an API configuration issue. Please check your API key and model settings.">>

\* The catch block of handleSubmit: the reply shown, the technical error and
\* whether the API stays ready
SubmitCatch(message) ==
    IF Includes(message, <<"4", "0", "4">>) /\ Includes(message, <<"n", "o", "t", " ", "f", "o", "u", "n", "d", " ", "f", "o", "r", " ", "A", "P", "I", " ", "v", "e", "r", "s", "i", "o", "n">>)
    THEN [errorMessage |-> ApiConfigurationMessage,
          technicalError |->
              <<"API version mismatch: Model not available in the specified API version">>,
          apiReady |-> FALSE]
    ELSE LET errorMessage ==
                 IF Includes(message, <<"F", "a", "i", "l", "e", "d", " ", "t", "o", " ", "p", "r", "o", "c", "e", "s", "s", " ", "c", "h", "a", "t", " ", "r", "e", "q", "u", "e", "s", "t">>)
                 THEN <<"Sorry, I had trouble understanding the document. Please try a more specific question or upload a shorter document.">>
                 ELSE IF Includes(message, <<"4", "0", "0">>)
                 THEN <<"Sorry, your question may contain content that cannot be processed. Please rephrase your question.">>
                 ELSE IF Includes(message, <<"4", "2", "9">>)
                 THEN <<"Rate limit exceeded. Please wait a moment before trying again.">>
                 ELSE IF Includes(message, <<"5", "0", "0">>)
                 THEN <<"Sorry, the service is experiencing issues. Please try again later.">>
                 ELSE <<"Sorry, I encountered an error processing your question.">>
         IN  [errorMessage |-> errorMessage, technicalError |-> message,
              apiReady |-> TRUE]

\* PDFChat is not rendered
ChatInit ==
    /\ chatMounted = FALSE
    /\ chatText = <<>>
    /\ messages = <<>>
    /\ chatInput = <<>>
    /\ chatLoading = FALSE
    /\ chatError = NULL
    /\ isApiReady = FALSE
    /\ chatSubmit = NoChatSubmit
    /\ asked = <<>>
    /\ lastReply = NoReply

\* initializeService / retryInitialization: they await setPDFContent, which
\* awaits nothing, so loading is true and false again within one step
InitializeService(pdfText, failure) ==
    /\ chatLoading' = FALSE
    /\ IF SetPDFContentThrows(pdfText)
       THEN /\ chatError' = failure \o <<"Failed to process PDF content">>
            /\ isApiReady' = FALSE
       ELSE /\ chatError' = NULL
            /\ isApiReady' = TRUE

\* The viewer opens the chat tab with the text it has extracted: PDFChat is
\* mounted with fresh state and its effect initializes the service
ChatMount(pdfText) ==
    /\ ~chatMounted
    /\ chatMounted' = TRUE
    /\ chatText' = pdfText
    /\ InitializeService(pdfText, <<"Failed to process document: ">>)
    /\ lastReply' = NoReply
    /\ UNCHANGED <<messages, chatInput, chatSubmit, asked>>
    /\ UNCHANGED nonChatVars

\* The viewer leaves the chat tab: the state of the component is gone, and a
\* call that still waits will set state of a component that no longer exists
ChatUnmount ==
    /\ chatMounted
    /\ chatMounted' = FALSE
    /\ chatText' = <<>>
    /\ messages' = <<>>
    /\ chatInput' = <<>>
    /\ chatLoading' = FALSE
    /\ chatError' = NULL
    /\ isApiReady' = FALSE
    /\ chatSubmit' = NoChatSubmit
    /\ asked' = <<>>
    /\ lastReply' = NoReply
    /\ UNCHANGED nonChatVars

\* retryInitialization, from one of the two buttons shown while the API is not
\* ready
RetryInitialization ==
    /\ chatMounted
    /\ ~isApiReady
    /\ chatError # NULL \/ ~chatLoading
    /\ InitializeService(chatText, <<"Failed to initialize: ">>)
    /\ lastReply' = NoReply
    /\ UNCHANGED <<chatMounted, chatText, messages, chatInput, chatSubmit, asked>>
    /\ UNCHANGED nonChatVars

\* onChange of the input field
SetInput(value) ==
    /\ chatMounted
    /\ Len(asked) < MaxQuestions
    /\ chatInput' = value
    /\ lastReply' = NoReply
    /\ UNCHANGED <<chatMounted, chatText, messages, chatLoading, chatError, isApiReady,
                   chatSubmit, asked>>
    /\ UNCHANGED nonChatVars

\* A handleSubmit without its guard
SubmitAcceptedAlways(value, busy, ready) == TRUE

\* The guard of handleSubmit

SubmitAccepted(value, busy, ready) == Trim(value) # <<>> /\ ~busy /\ ready

\* handleSubmit up to its await
ChatHandleSubmit ==
    /\ chatMounted
    /\ Len(asked) < MaxQuestions
    /\ SubmitAccepted(chatInput, chatLoading, isApiReady)
    /\ messages' = Append(messages, [role |-> "user", content |-> Trim(chatInput)])
    /\ chatInput' = <<>>
    /\ chatLoading' = TRUE
    /\ chatError' = NULL
    /\ chatSubmit' = [pc |-> "chat", question |-> Trim(chatInput),
                      sawInput |-> chatInput, sawLoading |-> chatLoading,
                      sawApiReady |-> isApiReady]
    /\ asked' = Append(asked, Trim(chatInput))
    /\ lastReply' = NoReply
    /\ UNCHANGED <<chatMounted, chatText, isApiReady>>
    /\ UNCHANGED nonChatVars

\* handleSubmit from the answer of geminiService.chat on
ChatAnswered(first, second) ==
    /\ chatSubmit.pc = "chat"
    /\ LET result == ChatResult(first, second)
           caught == SubmitCatch(result.text)
       IN  /\ lastReply' = [ran |-> TRUE, first |-> first, thrown |-> result.thrown]
           /\ IF ~result.thrown
              THEN /\ messages' = Append(messages,
                          [role |-> "assistant",
                           content |-> IF result.text # <<>> THEN result.text
                                       ELSE <<"I couldn't generate a response. Please try asking a different question.">>])
                   /\ chatError' = NULL
                   /\ UNCHANGED isApiReady
              ELSE /\ messages' = Append(messages,
                          [role |-> "assistant", content |-> caught.errorMessage])
                   /\ chatError' = <<"API Error: ">> \o caught.technicalError
                   /\ isApiReady' = caught.apiReady
    /\ chatLoading' = FALSE
    /\ chatSubmit' = [chatSubmit EXCEPT !.pc = "none"]
    /\ UNCHANGED <<chatMounted, chatText, chatInput, asked>>
    /\ UNCHANGED nonChatVars

ChatNext ==
    \/ \E t \in ChatTexts : ChatMount(t)
    \/ ChatUnmount
    \/ RetryInitialization
    \/ \E v \in ChatInputs : SetInput(v)
    \/ ChatHandleSubmit
    \/ \E first \in ChatApiOutcomes, second \in ChatApiOutcomes :
          ChatAnswered(first, second)

(***************************************************************************)
(* PDFTextExtractor (src/components/PDFTextExtractor.tsx), rendered by a    *)
(* parent that hands it the same fileUrl, onTextExtracted and onError as   *)
(* long as it is mounted: the extraction effect runs once, when the        *)
(* component is mounted.  The text of the pages and the estimate of the    *)
(* remaining time are left out; the two awaits of a page (getPage,         *)
(* getTextContent) are one step.                                           *)
(***************************************************************************)
\* Numbers of pages of the documents: none, a few, and around the limits of
\* the batch sizes
PageCounts == {0, 6, 51, 100, 101}

\* Pages that pdf.js may fail to read
BadPages == {2, 51}

\* A batch size that knows no middle class
BatchSizeOfTwoClasses(total) == IF total > 100 THEN 5 ELSE 20

BatchSizeOf(total) == IF total > 100 THEN 5 ELSE (IF total > 50 THEN 10 ELSE 20)

\* The pages of the batch that starts at page i
Batch(i, size, total) == i..(i + Min(size, total - i + 1) - 1)

\* Math.round for a quotient of naturals
RoundDiv(a, b) == (2 * a + b) \div (2 * b)

\* The component is mounted with a fileUrl: isExtracting starts true and the
\* effect has called extractTextFromPDF, which awaits the document
TextExInit ==
    /\ txPc = "getDocument"
    /\ numPages = 0
    /\ isExtracting = TRUE
    /\ txProgress = 0
    /\ txCurrentPage = 0
    /\ pageProgressList = <<>>
    /\ errorDetails = NULL
    /\ batchSize = 0
    /\ batchStart = 0
    /\ processedPages = 0
    /\ txCalls = <<>>
    /\ retried = FALSE

\* The end of the loop: onTextExtracted, then the finally block
ExtractionCompleted ==
    /\ txCalls' = Append(txCalls, "onTextExtracted")
    /\ retried' = FALSE
    /\ isExtracting' = FALSE
    /\ txPc' = "ended"

\* The batch that starts at page i begins: every page of it runs up to its
\* first await
StartBatch(i, size, total, list) ==
    /\ batchStart' = i
    /\ txCurrentPage' = i + Min(size, total - i + 1) - 1
    /\ pageProgressList' =
           [n \in 1..total |-> IF n \in Batch(i, size, total) THEN "extracting" ELSE list[n]]
    /\ txPc' = "batch"

\* loadingTask.promise resolves with a document of total pages
DocumentLoaded(total) ==
    /\ txPc = "getDocument"
    /\ numPages' = total
    /\ batchSize' = BatchSizeOf(total)
    /\ IF total >= 1
       THEN /\ StartBatch(1, BatchSizeOf(total), total, [n \in 1..total |-> "pending"])
            /\ UNCHANGED <<txCalls, retried, isExtracting>>
       ELSE /\ ExtractionCompleted
            /\ pageProgressList' = <<>>
            /\ UNCHANGED <<batchStart, txCurrentPage>>
    /\ UNCHANGED <<txProgress, errorDetails, processedPages>>
    /\ UNCHANGED nonTextExVars

\* loadingTask.promise rejects: the outer catch and the finally block
DocumentFailed ==
    /\ txPc = "getDocument"
    /\ errorDetails' = <<"Invalid PDF structure">>
    /\ txCalls' = Append(txCalls, "onError")
    /\ retried' = FALSE
    /\ isExtracting' = FALSE
    /\ txPc' = "ended"
    /\ UNCHANGED <<numPages, txProgress, txCurrentPage, pageProgressList, batchSize,
                   batchStart, processedPages>>
    /\ UNCHANGED nonTextExVars

\* Page pageNum of the running batch has been read (ok) or has failed.  When it
\* is the last of its batch, Promise.all resolves and the loop goes on: to the
\* pause before the next batch, or to its end.
PageSettled(pageNum, ok) ==
    /\ txPc = "batch"
    /\ pageNum \in Batch(batchStart, batchSize, numPages)
    /\ pageProgressList[pageNum] = "extracting"
    /\ ok \/ pageNum \in BadPages
    /\ LET list == [pageProgressList EXCEPT ![pageNum] = IF ok THEN "complete" ELSE "error"]
           allSettled == \A n \in Batch(batchStart, batchSize, numPages) :
                             list[n] # "extracting"
       IN  /\ pageProgressList' = list
           /\ IF ok
              THEN /\ processedPages' = processedPages + 1
                   /\ txProgress' = 20 + RoundDiv((processedPages + 1) * 80, numPages)
              ELSE UNCHANGED <<processedPages, txProgress>>
           /\ IF ~allSettled
              THEN UNCHANGED <<txPc, txCalls, retried, isExtracting>>
              ELSE IF batchStart + batchSize <= numPages
                   THEN /\ txPc' = "pause"
                        /\ UNCHANGED <<txCalls, retried, isExtracting>>
                   ELSE ExtractionCompleted
    /\ UNCHANGED <<numPages, txCurrentPage, errorDetails, batchSize, batchStart>>
    /\ UNCHANGED nonTextExVars

\* The timer between two batches fires
PauseOver ==
    /\ txPc = "pause"
    /\ StartBatch(batchStart + batchSize, batchSize, numPages, pageProgressList)
    /\ UNCHANGED <<numPages, isExtracting, txProgress, errorDetails, batchSize,
                   processedPages, txCalls, retried>>
    /\ UNCHANGED nonTextExVars

\* handleRetry, from the button below the error details.  It sets state of the
\* component only: fileUrl, onTextExtracted and onError are what they were, so
\* the effect is not run again.
HandleRetry ==
    /\ errorDetails # NULL
    /\ isExtracting' = TRUE
    /\ txProgress' = 0
    /\ txCurrentPage' = 0
    /\ errorDetails' = NULL
    /\ retried' = TRUE
    /\ UNCHANGED <<txPc, numPages, pageProgressList, batchSize, batchStart,
                   processedPages, txCalls>>
    /\ UNCHANGED nonTextExVars

TextExNext ==
    \/ \E total \in PageCounts : DocumentLoaded(total)
    \/ DocumentFailed
    \/ \E pageNum \in 1..numPages, ok \in BOOLEAN : PageSettled(pageNum, ok)
    \/ PauseOver
    \/ HandleRetry

(***************************************************************************)
(* NoteViewer (src/pages/NoteViewer.tsx): the edit form of the note and    *)
(* handleSaveChanges, which awaits three backend operations one after the  *)
(* other                                                                   *)
(***************************************************************************)
MaxSaves == 2

EditTitles == { <<"a">>, <<"b">> }

EditTags == { <<"x">>, <<" ", "y">> }

NoSave == [pc |-> "none", title |-> <<>>, tags |-> <<>>, annotations |-> <<>>,
           tagsBefore |-> <<>>]

NoSaved == [ran |-> FALSE, failedAt |-> "none", tagsBefore |-> <<>>]

\* The page after fetchNote has loaded a note with one tag
SaveInit ==
    /\ noteTitle = <<"a">>
    /\ noteTags = << <<"x">> >>
    /\ isEditing = FALSE
    /\ editedTitle = <<"a">>
    /\ editedTags = << <<"x">> >>
    /\ dbTitle = <<"a">>
    /\ dbTags = << <<"x">> >>
    /\ saveCall = NoSave
    /\ nSaves = 0
    /\ lastSave = NoSaved

\* The Edit button, and Cancel in the form
SetIsEditing(value) ==
    /\ isEditing # value
    /\ isEditing' = value
    /\ lastSave' = NoSaved
    /\ UNCHANGED <<noteTitle, noteTags, editedTitle, editedTags, dbTitle, dbTags,
                   saveCall, nSaves>>
    /\ UNCHANGED <<annotations, nvError, nonSaveVars>>

\* The title field of the form
SetEditedTitle(value) ==
    /\ isEditing
    /\ nSaves < MaxSaves
    /\ editedTitle' = value
    /\ lastSave' = NoSaved
    /\ UNCHANGED <<noteTitle, noteTags, isEditing, editedTags, dbTitle, dbTags,
                   saveCall, nSaves>>
    /\ UNCHANGED <<annotations, nvError, nonSaveVars>>

\* handleAddTag of the form, with value typed into the tag field
NoteHandleAddTag(value) ==
    /\ isEditing
    /\ nSaves < MaxSaves
    /\ Trim(value) # <<>> /\ ~InSeq(Trim(value), editedTags)
    /\ editedTags' = Append(editedTags, Trim(value))
    /\ lastSave' = NoSaved
    /\ UNCHANGED <<noteTitle, noteTags, isEditing, editedTitle, dbTitle, dbTags,
                   saveCall, nSaves>>
    /\ UNCHANGED <<annotations, nvError, nonSaveVars>>

\* handleRemoveTag of the form
NoteHandleRemoveTag(tagToRemove) ==
    /\ isEditing
    /\ nSaves < MaxSaves
    /\ InSeq(tagToRemove, editedTags)
    /\ editedTags' = SelectSeq(editedTags, LAMBDA tag : tag # tagToRemove)
    /\ lastSave' = NoSaved
    /\ UNCHANGED <<noteTitle, noteTags, isEditing, editedTitle, dbTitle, dbTags,
                   saveCall, nSaves>>
    /\ UNCHANGED <<annotations, nvError, nonSaveVars>>

\* handleSaveChanges up to its first await (one call is in flight at a time)
HandleSaveChanges ==
    /\ isEditing
    /\ saveCall.pc = "none"
    /\ nSaves < MaxSaves
    /\ nSaves' = nSaves + 1
    /\ nvError' = NULL
    /\ saveCall' = [pc |-> "update", title |-> editedTitle, tags |-> editedTags,
                    annotations |-> annotations, tagsBefore |-> dbTags]
    /\ lastSave' = NoSaved
    /\ UNCHANGED <<noteTitle, noteTags, isEditing, editedTitle, editedTags, dbTitle,
                   dbTags>>
    /\ UNCHANGED <<annotations, nonSaveVars>>

\* handleSaveChanges: the catch block
SaveFailed(step) ==
    /\ nvError' = <<"Failed to save changes. Please try again.">>
    /\ saveCall' = NoSave
    /\ lastSave' = [ran |-> TRUE, failedAt |-> step, tagsBefore |-> saveCall.tagsBefore]
    /\ UNCHANGED <<noteTitle, noteTags, isEditing, annotations>>

\* handleSaveChanges: setNote with the note the call closed over, then
\* setIsEditing(false)
SaveSucceeded ==
    /\ noteTitle' = saveCall.title
    /\ noteTags' = saveCall.tags
    /\ annotations' = saveCall.annotations
    /\ isEditing' = FALSE
    /\ saveCall' = NoSave
    /\ lastSave' = [ran |-> TRUE, failedAt |-> "none", tagsBefore |-> saveCall.tagsBefore]
    /\ UNCHANGED nvError

\* The update of the row of the note answers
TitleUpdated(ok) ==
    /\ saveCall.pc = "update"
    /\ IF ok
       THEN /\ dbTitle' = saveCall.title
            /\ saveCall' = [saveCall EXCEPT !.pc = "deleteTags"]
            /\ lastSave' = NoSaved
            /\ UNCHANGED <<noteTitle, noteTags, isEditing, annotations, nvError>>
       ELSE /\ SaveFailed("update")
            /\ UNCHANGED dbTitle
    /\ UNCHANGED <<editedTitle, editedTags, dbTags, nSaves>>
    /\ UNCHANGED nonSaveVars

\* The delete of the tags of the note answers
TagsDeleted(ok) ==
    /\ saveCall.pc = "deleteTags"
    /\ IF ok
       THEN /\ dbTags' = <<>>
            /\ IF Len(saveCall.tags) > 0
               THEN /\ saveCall' = [saveCall EXCEPT !.pc = "insertTags"]
                    /\ lastSave' = NoSaved
                    /\ UNCHANGED <<noteTitle, noteTags, isEditing, annotations, nvError>>
               ELSE SaveSucceeded
       ELSE /\ SaveFailed("deleteTags")
            /\ UNCHANGED dbTags
    /\ UNCHANGED <<editedTitle, editedTags, dbTitle, nSaves>>
    /\ UNCHANGED nonSaveVars

\* The insert of the new tags answers
NewTagsInserted(ok) ==
    /\ saveCall.pc = "insertTags"
    /\ IF ok
       THEN /\ dbTags' = saveCall.tags
            /\ SaveSucceeded
       ELSE /\ SaveFailed("insertTags")
            /\ UNCHANGED dbTags
    /\ UNCHANGED <<editedTitle, editedTags, dbTitle, nSaves>>
    /\ UNCHANGED nonSaveVars

SaveNext ==
    \/ \E value \in BOOLEAN : SetIsEditing(value)
    \/ \E value \in EditTitles : SetEditedTitle(value)
    \/ \E value \in EditTags : NoteHandleAddTag(value)
    \/ \E tag \in {Trim(t) : t \in EditTags} : NoteHandleRemoveTag(tag)
    \/ HandleSaveChanges
    \/ \E ok \in BOOLEAN : TitleUpdated(ok)
    \/ \E ok \in BOOLEAN : TagsDeleted(ok)
    \/ \E ok \in BOOLEAN : NewTagsInserted(ok)

PageInit == NoteViewInit /\ SplitIdle /\ ChatInit /\ TextExInit /\ SaveInit

Init == GeminiInit /\ ExtractInit /\ LoggedIn /\ UploadInit /\ DashInit /\ PageInit

\* The app as it is loaded
InitAuth == GeminiInit /\ ExtractInit /\ AuthInit /\ UploadInit /\ DashInit /\ PageInit

\* The modal with a file being read
InitDetect == GeminiInit /\ ExtractInit /\ LoggedIn /\ DetectInit /\ DashInit /\ PageInit

\* The Dashboard of a user who has notes
InitDashboard ==
    GeminiInit /\ ExtractInit /\ LoggedIn /\ ModalInit /\ SeededBackend /\ DashInit
    /\ PageInit

\* The modal with a form ready to be submitted
InitSubmit == GeminiInit /\ ExtractInit /\ LoggedIn /\ SubmitInit /\ EmptyBackend /\ DashInit /\ PageInit

SpecGemini == Init /\ [][GeminiNext]_vars

\* The service given long documents
InitLong == LongInit /\ ExtractInit /\ LoggedIn /\ UploadInit /\ DashInit /\ PageInit

SpecLong == InitLong /\ [][LongNext]_vars

SpecExtract == Init /\ [][ExtractNext]_vars

SpecDetect == InitDetect /\ [][DetectNext]_vars

SpecUpload == Init /\ [][UploadNext]_vars

SpecSubmit == InitSubmit /\ [][SubmitNext]_vars

SpecAuth == InitAuth /\ [][AuthNext]_vars

SpecDashboard == InitDashboard /\ [][DashNext]_vars

SpecNoteView == Init /\ [][NoteViewNext]_vars

\* splitTextIntoChunks called with a text and a chunk size
InitSplit ==
    GeminiInit /\ ExtractInit /\ LoggedIn /\ UploadInit /\ DashInit /\ NoteViewInit
    /\ SplitInit /\ ChatInit /\ TextExInit /\ SaveInit

SpecSplit == InitSplit /\ [][SplitNext]_vars

SpecChat == Init /\ [][ChatNext]_vars

SpecSave == Init /\ [][SaveNext]_vars

SpecTextEx == Init /\ [][TextExNext]_vars

\* What pdf.js and the timer are waited for does happen; the user need not
\* press the retry button
TextExFairness ==
    /\ WF_vars(DocumentFailed \/ \E total \in PageCounts : DocumentLoaded(total))
    /\ WF_vars(\E pageNum \in 1..numPages : PageSettled(pageNum, TRUE))
    /\ WF_vars(PauseOver)

SpecTextExLive == Init /\ [][TextExNext]_vars /\ TextExFairness


(***************************************************************************)
(* Claims about GeminiService                                              *)
(***************************************************************************)
\* The last n elements of s
LastN(s, n) == IF Len(s) > n THEN SubSeq(s, Len(s) - n + 1, Len(s)) ELSE s

\* C1: the conversation history never holds more than maxHistoryLength (10)
\* entries, and it is always the most recently added entries since the last
\* clear, in the order they were added.
C1_HistoryBounded ==
    /\ Len(conversationHistory) <= maxHistoryLength
    /\ conversationHistory = LastN(added, maxHistoryLength)

\* C1 witness: entries were dropped and the history is full
C1_Witness_Dropped ==
    /\ Len(added) > maxHistoryLength
    /\ Len(conversationHistory) = maxHistoryLength

\* C2: processingState is one of the three values; a call that no other call
\* overlaps sees 'processing' while it awaits the model, leaves 'idle' when it
\* returns and leaves 'error' with lastError set when it throws.
C2_ProcessingState ==
    /\ processingState \in {"idle", "processing", "error"}
    /\ \A c \in Callers :
           InFlight = {c} /\ ~calls[c].overlapped => processingState = "processing"
    /\ finished # NoCall /\ ~finished.overlapped =>
           /\ finished.outcome = "return" => processingState = "idle"
           /\ finished.outcome = "throw" =>
                  processingState = "error" /\ lastError # NULL

\* C2 witness: a chat call that nothing overlapped has thrown after a request
C2_Witness_ChatThrew ==
    /\ finished # NoCall
    /\ finished.op = "chat"
    /\ finished.outcome = "throw"
    /\ ~finished.overlapped
    /\ pdfContent # <<>>
    /\ processingState = "error"

\* C3: a request sent while the history holds earlier turns carries those
\* turns (the text getConversationContext builds) in its prompt.
C3_PromptCarriesHistory ==
    \A c \in InFlight : calls[c].hadHistory => calls[c].contextSent

(***************************************************************************)
(* Claims about extractTextFromPDF                                         *)
(***************************************************************************)
SelectLog(log, Test(_)) == SelectSeq(log, Test)

IsGetPage(e) == e.kind = "getPage"

IsErrorUpdate(e) == e.kind = "progress" /\ e.status = "error"

IsCompleteUpdate(e) == e.kind = "progress" /\ e.status = "complete"

IsOcrUpdate(e) == e.kind = "progress" /\ e.status = "ocr"

\* The update that ends a chunk
IsChunkUpdate(e) ==
    /\ e.kind = "progress"
    /\ e.message.template \in
           {"Processed ${currentPage - 1} of ${totalPages} pages", "Text extraction complete"}

\* The number of getPage calls of each chunk that has ended, in order
RECURSIVE ChunkSizes(_, _)
ChunkSizes(log, count) ==
    IF log = <<>> THEN <<>>
    ELSE IF IsChunkUpdate(Head(log)) THEN <<count>> \o ChunkSizes(Tail(log), 0)
    ELSE IF IsGetPage(Head(log)) THEN ChunkSizes(Tail(log), count + 1)
    ELSE ChunkSizes(Tail(log), count)

RECURSIVE ConcatPages(_)
ConcatPages(texts) ==
    IF texts = <<>> THEN <<>>
    ELSE Head(texts) \o PageSeparator \o ConcatPages(Tail(texts))

CeilDiv(n, d) == (n + d - 1) \div d

\* C4: while no library call has failed, the pages are read in the order
\* 1, 2, 3, ..., each once, every read directly preceded by the 'extracting'
\* update of that page; a chunk holds at most MAX_PAGES_PER_CHUNK (5) pages and
\* every chunk but the last holds exactly 5; and when the function has returned,
\* all N pages were read, in ceil(N/5) chunks, and the result is the trimmed
\* concatenation of the page texts in page order, each followed by "\n\n".
C4_PagesInOrder ==
    exFailedAt = "none" =>
        LET reads == SelectLog(exLog, IsGetPage)
            sizes == ChunkSizes(exLog, 0)
        IN  /\ \A j \in 1..Len(reads) : reads[j].currentPage = j
            /\ \A m \in 1..Len(exLog) :
                   IsGetPage(exLog[m]) =>
                       /\ m > 1
                       /\ exLog[m - 1] =
                              ExtractingProgress(exLog[m].currentPage, totalPages)
            /\ \A k \in 1..Len(sizes) :
                   /\ sizes[k] >= 1
                   /\ sizes[k] <= MAX_PAGES_PER_CHUNK
                   /\ k < CeilDiv(totalPages, MAX_PAGES_PER_CHUNK) =>
                          sizes[k] = MAX_PAGES_PER_CHUNK
            /\ Len(sizes) = chunkCount
            /\ exPc = "done" =>
                   /\ Len(reads) = totalPages
                   /\ Len(pageTexts) = totalPages
                   /\ chunkCount = CeilDiv(totalPages, MAX_PAGES_PER_CHUNK)
                   /\ exResult = Trim(ConcatPages(pageTexts))

\* C4 witness: a document of more than two chunks, one page of it read by OCR,
\* has been extracted
C4_Witness_ThreeChunks ==
    /\ exPc = "done"
    /\ totalPages > 2 * MAX_PAGES_PER_CHUNK
    /\ chunkCount = 3
    /\ SelectLog(exLog, IsOcrUpdate) # <<>>
    /\ exResult # <<>>

\* C5: the function has rejected exactly when a step of it has failed; it has
\* then rejected with 'Failed to extract text from PDF. Please try again.',
\* has resolved with nothing, and has delivered exactly one 'error' update,
\* as the last update, so that no 'complete' update follows an 'error' one.
\* A run without a failure delivers no 'error' update.
C5_ErrorReportedOnce ==
    LET errors == SelectLog(exLog, IsErrorUpdate)
    IN  /\ (exFailedAt # "none") <=> (exPc = "rejected")
        /\ exPc = "rejected" =>
               /\ Len(errors) = 1
               /\ IsErrorUpdate(exLog[Len(exLog)])
               /\ exResult = NULL
               /\ exError = <<"Failed to extract text from PDF. Please try again.">>
        /\ exPc # "rejected" => errors = <<>> /\ exError = NULL
        /\ \A i, j \in 1..Len(exLog) :
               IsErrorUpdate(exLog[i]) /\ IsCompleteUpdate(exLog[j]) => j < i

\* C5 witness: OCR failed on a page after earlier chunks had given text
C5_Witness_OcrFailed ==
    /\ exPc = "rejected"
    /\ exFailedAt = "recognize"
    /\ fullText # <<>>
    /\ exResult = NULL

\* The categories in the order of priority, each with its keywords
CategoryPriority ==
    << [name |-> <<"M", "a", "t", "h">>,
        keywords |-> { <<"m", "a", "t", "h">>, <<"e", "q", "u", "a", "t", "i", "o", "n">>, <<"c", "a", "l", "c", "u", "l", "u", "s">> }],
       [name |-> <<"S", "c", "i", "e", "n", "c", "e">>,
        keywords |-> { <<"s", "c", "i", "e", "n", "c", "e">>, <<"b", "i", "o", "l", "o", "g", "y">>, <<"c", "h", "e", "m", "i", "s", "t", "r", "y">> }],
       [name |-> <<"H", "i", "s", "t", "o", "r", "y">>,
        keywords |-> { <<"h", "i", "s", "t", "o", "r", "y">>, <<"c", "e", "n", "t", "u", "r", "y">>, <<"w", "a", "r">> }],
       [name |-> <<"L", "i", "t", "e", "r", "a", "t", "u", "r", "e">>,
        keywords |-> { <<"l", "i", "t", "e", "r", "a", "t", "u", "r", "e">>, <<"n", "o", "v", "e", "l">>, <<"p", "o", "e", "t", "r", "y">> }],
       [name |-> <<"C", "o", "m", "p", "u", "t", "e", "r", " ", "S", "c", "i", "e", "n", "c", "e">>,
        keywords |-> { <<"c", "o", "m", "p", "u", "t", "e", "r">>, <<"p", "r", "o", "g", "r", "a", "m", "m", "i", "n", "g">>, <<"a", "l", "g", "o", "r", "i", "t", "h", "m">> }] >>

CategoryMatches(i, text) ==
    \E k \in CategoryPriority[i].keywords : Includes(ToLowerCase(text), k)

NoDuplicate(seq) == \A i, j \in 1..Len(seq) : seq[i] = seq[j] => i = j

\* C6: after detectCategory has run on a text, the category is the first of
\* Math, Science, History, Literature, Computer Science that has a keyword in
\* the lower-cased text, and it is the category of before when none has.
C6_FirstCategoryInPriority ==
    lastDetect.ran =>
        IF \E i \in DOMAIN CategoryPriority : CategoryMatches(i, lastDetect.text)
        THEN \E i \in DOMAIN CategoryPriority :
                /\ CategoryMatches(i, lastDetect.text)
                /\ \A j \in 1..(i - 1) : ~CategoryMatches(j, lastDetect.text)
                /\ category = CategoryPriority[i].name
        ELSE category = lastDetect.categoryBefore

\* C6 witness: detectCategory has run on a text with keywords of Math and of
\* History while another category was selected, and the category is Math
C6_Witness_MathBeforeHistory ==
    /\ lastDetect.ran
    /\ CategoryMatches(1, lastDetect.text)
    /\ CategoryMatches(3, lastDetect.text)
    /\ lastDetect.categoryBefore = <<"O", "t", "h", "e", "r">>
    /\ category = <<"M", "a", "t", "h">>

\* C7: after detectCategory has run, the tag list holds every tag it held
\* before, followed by at most 3 more, each a keyword found in the text that
\* was not a tag before, and it has no duplicate.
C7_TagsKeptAndSuggested ==
    lastDetect.ran =>
        /\ Len(tags) >= Len(lastDetect.tagsBefore)
        /\ SubSeq(tags, 1, Len(lastDetect.tagsBefore)) = lastDetect.tagsBefore
        /\ Len(tags) - Len(lastDetect.tagsBefore) <= maxSuggestedTags
        /\ \A i \in (Len(lastDetect.tagsBefore) + 1)..Len(tags) :
              /\ InSeq(tags[i], TagKeywords)
              /\ Includes(ToLowerCase(lastDetect.text), tags[i])
              /\ ~InSeq(tags[i], lastDetect.tagsBefore)
        /\ NoDuplicate(tags)

\* C9: every note stored by handleSubmit is shown by the NoteViewer page with
\* the viewer of its file type: a markdown note with the MarkdownViewer, a
\* text note with the plain-text block, a PDF with the PDFViewer, an image
\* with the image.
C9_StoredNoteCanBeViewed ==
    \A i \in 1..Len(dbNotes) :
        RenderedViewer(TransformedNote(dbNotes[i], dbNoteTags)) =
            CASE dbNotes[i].file_type = "pdf" -> "PDFViewer"
              [] dbNotes[i].file_type = "image" -> "image"
              [] dbNotes[i].file_type = "markdown" -> "MarkdownViewer"
              [] dbNotes[i].file_type = "text" -> "text"

\* A field of a note holds the term, letter case apart
HoldsTerm(field, term) ==
    field # NULL /\ Includes(ToLowerCase(field), ToLowerCase(term))

\* A note matches every active filter of the Dashboard
MatchesActiveFilters(note) ==
    /\ searchTerm # <<>> =>
          \/ HoldsTerm(note.title, searchTerm)
          \/ HoldsTerm(note.content, searchTerm)
          \/ HoldsTerm(note.category, searchTerm)
          \/ \E k \in 1..Len(note.tags) : HoldsTerm(note.tags[k], searchTerm)
    /\ selectedCategory # NULL => note.category = selectedCategory
    /\ selectedTag # NULL => \E k \in 1..Len(note.tags) : note.tags[k] = selectedTag

\* C8 (as amended): whenever the filter effect is not due, filteredNotes is
\* the sub-list of notes, in the order of notes, of the notes that match every
\* active filter, so that it holds notes of notes only.
C8_SettledFilteredNotes ==
    ~effectPending =>
        /\ filteredNotes = SelectSeq(notes, MatchesActiveFilters)
        /\ \A i \in 1..Len(filteredNotes) : InSeq(filteredNotes[i], notes)

\* C8 witness: after a deletion, with the search term EXAM and the category
\* History selected, the updates have settled and filteredNotes is the one
\* note of the two left that matches
C8_Witness_FilteredAfterDelete ==
    /\ ~effectPending
    /\ fetching = 0
    /\ dashDelete.pc = "none"
    /\ Len(notes) = 2
    /\ Len(dbNotes) = 2
    /\ searchTerm = <<"E", "X", "A", "M">>
    /\ selectedCategory = <<"H", "i", "s", "t", "o", "r", "y">>
    /\ Len(filteredNotes) = 1
    /\ filteredNotes[1].title = <<"W", "a", "r">>

\* C8 (as stated): filteredNotes is the sub-list of matching notes once the
\* updates have settled, and at no time does filteredNotes hold a note that
\* is not in notes.
C8_FilteredNeverOutsideNotes ==
    /\ ~effectPending => filteredNotes = SelectSeq(notes, MatchesActiveFilters)
    /\ \A i \in 1..Len(filteredNotes) : InSeq(filteredNotes[i], notes)

\* C10: at a protected path the page is rendered only when loading is false
\* and user is not null; while loading is true the spinner is rendered and
\* nothing else; when loading is false and user is null the redirect to
\* /login is rendered; and after an auth state change without a session no
\* protected page is rendered.
C10_ProtectedRouteGuards ==
    /\ routeView = "children" => ~authLoading /\ authUser # NoUser
    /\ location \in ProtectedPaths =>
          /\ authLoading => routeView = "spinner"
          /\ ~authLoading /\ authUser = NoUser => routeView = "redirect"
          /\ ~authLoading /\ authUser # NoUser => routeView = "children"
    /\ routeView = "redirect" => ENABLED NavigateToLogin
    /\ lastAuthEvent = "no session" => routeView # "children"

\* C10 witness: the page of a note was rendered for a user, the session has
\* ended, the callback has been called without a session, and the redirect
\* is rendered in place of the page
C10_Witness_RedirectAfterSignOut ==
    /\ lastAuthEvent = "no session"
    /\ location = "/notes/:noteId"
    /\ ~sessionPending
    /\ session = NoUser
    /\ routeView = "redirect"

(***************************************************************************)
(* Claims about UploadModal.handleSubmit                                   *)
(***************************************************************************)
\* The backend steps of a log, and the steps handleSubmit is to make
BackendSteps(log) ==
    LET IsBackend(e) == e.step \in {"upload", "insertNote", "insertTags"}
    IN  SelectSeq(log, IsBackend)

StepsInOrder(tagList) ==
    IF Len(tagList) > 0 THEN <<"upload", "insertNote", "insertTags">>
    ELSE <<"upload", "insertNote">>

LogHas(log, step) == \E i \in 1..Len(log) : log[i].step = step

\* C11: the backend steps of a handleSubmit call are, in this order, the
\* storage upload, the insert of the note and (only with tags) the insert of
\* the tags; a step that fails is the last one and is followed by the catch,
\* which sets the error message; onUploadSuccess is called only after all
\* steps have been made and have succeeded; and when the call has finished
\* isUploading is false.
C11_SubmitStepsInOrder ==
    LET log == upSubmit.log
        steps == BackendSteps(log)
        order == StepsInOrder(upSubmit.tags)
        ended == upSubmit.pc = "none" /\ log # <<>>
    IN  /\ Len(steps) <= Len(order)
        /\ \A i \in 1..Len(steps) : steps[i].step = order[i]
        /\ \A i \in 1..Len(steps) : ~steps[i].ok => i = Len(steps)
        /\ \A i \in 1..Len(log) :
              log[i].step \in {"catch", "onUploadSuccess"} => i = Len(log) /\ ended
        /\ LogHas(log, "onUploadSuccess") =>
              /\ Len(steps) = Len(order)
              /\ \A i \in 1..Len(steps) : steps[i].ok
        /\ (\E i \in 1..Len(steps) : ~steps[i].ok) =>
              /\ ended
              /\ LogHas(log, "catch")
              /\ upSubmit.mounted /\ modalOpen =>
                    upError = <<"Failed to upload note. Please try again.">>
        /\ ended =>
              /\ ~isUploading
              /\ LogHas(log, "catch") \/ LogHas(log, "onUploadSuccess")
        /\ LogHas(log, "upload") /\ steps[1].ok => upSubmit.filePath \in storageFiles
        /\ upSubmit.pc \in {"upload", "insertNote", "insertTags"} /\ upSubmit.mounted
              => isUploading

\* C11 witness: a call with tags has stored the file and the note, the
\* insert of the tags has failed, and the call has finished with the error
C11_Witness_TagsFailed ==
    /\ upSubmit.pc = "none"
    /\ Len(upSubmit.log) = 4
    /\ upSubmit.log[3] = [step |-> "insertTags", ok |-> FALSE]
    /\ upSubmit.log[4].step = "catch"
    /\ Len(dbNotes) = 1
    /\ dbNoteTags = <<>>
    /\ upError = <<"Failed to upload note. Please try again.">>
    /\ ~isUploading

(***************************************************************************)
(* C12: the annotation list of the page follows the backend                *)
(***************************************************************************)
\* What setNote must have made of the list the page showed when the call ended
AnnotationsAfter(last) ==
    IF ~last.ok THEN last.before
    ELSE IF last.op = "add"
         THEN Append(last.before, [id |-> last.newId, text |-> last.arg])
         ELSE WithoutAnnotation(last.before, last.arg)

\* C12: a handler call that ended with a successful insert has appended exactly
\* the one new annotation, with the id the backend gave it, to the list of the
\* page; one that ended with a successful delete has removed exactly the
\* annotation with the given id; one that ended with a backend error has left
\* the list as it was and set the error message.
C12_AnnotationsFollowBackend ==
    lastAnnotation.ran =>
        /\ annotations = AnnotationsAfter(lastAnnotation)
        /\ ~lastAnnotation.ok => nvError # NULL

(***************************************************************************)
(* C13, C14: the chunks of splitTextIntoChunks                             *)
(***************************************************************************)
\* C13: every chunk splitTextIntoChunks returns is non-empty and has at most
\* chunkSize characters.
C13_ChunksWithinSize ==
    splitDone =>
        \A i \in 1..Len(splitChunks) :
            /\ splitChunks[i] # <<>>
            /\ Len(splitChunks[i]) <= splitChunkSize

RECURSIVE Concat(_)
Concat(list) == IF list = <<>> THEN <<>> ELSE Head(list) \o Concat(Tail(list))

NonWhitespace(t) == SelectSeq(t, LAMBDA ch : ~IsSpace(ch))

\* C14: the characters of the chunks that are not whitespace, in order, are
\* those of the text: nothing is lost, the text after the last . ! or ?
\* included.
C14_NoTextLost ==
    splitDone => NonWhitespace(Concat(splitChunks)) = NonWhitespace(splitText)

(***************************************************************************)
(* C15: the messages of PDFChat                                            *)
(***************************************************************************)
\* C15: a submission is accepted only with a non-blank input, loading false
\* and isApiReady true; the messages are, for every accepted submission in
\* order, its question as a user message followed by one assistant message,
\* the last of which is missing exactly while the submission still waits; and
\* loading is true exactly while a submission waits, so it is false again once
\* the submission has completed.
C15_MessagesAlternate ==
    /\ chatSubmit.pc = "chat" =>
           /\ Trim(chatSubmit.sawInput) # <<>>
           /\ ~chatSubmit.sawLoading
           /\ chatSubmit.sawApiReady
    /\ \A i \in 1..Len(messages) :
           messages[i].role = IF i % 2 = 1 THEN "user" ELSE "assistant"
    /\ Len(messages) = 2 * Len(asked) - (IF chatSubmit.pc = "chat" THEN 1 ELSE 0)
    /\ \A k \in 1..Len(asked) : messages[2 * k - 1].content = asked[k]
    /\ chatLoading = (chatSubmit.pc = "chat")
    /\ lastReply.ran => ~chatLoading

\* Two submissions have completed, the second with an error text as its reply
C15_Witness_AnswerThenError ==
    /\ Len(messages) = 4
    /\ lastReply.ran
    /\ lastReply.thrown
    /\ messages[2].content \in ResponseTexts
    /\ chatError # NULL

(***************************************************************************)
(* C18: a model that is not found                                          *)
(***************************************************************************)
\* C18: when the first request of the chat call is rejected with a 404 / not
\* found error, the submission ends with isApiReady false and the API
\* configuration message as the assistant reply.
C18_NotFoundTakesVersionBranch ==
    (/\ lastReply.ran
     /\ lastReply.first.kind = "reject"
     /\ IsNotFound(lastReply.first.text)) =>
        /\ ~isApiReady
        /\ messages[Len(messages)].content = ApiConfigurationMessage

(***************************************************************************)
(* C16: the requests of a chat call and what it stores                     *)
(***************************************************************************)
\* The chat call in slot c ends in this step
ChatEnds(c) == calls[c].pc # "idle" /\ calls'[c].pc = "idle"

\* history ends with the question and an answer to it
EndsWithPair(history, question) ==
    /\ Len(history) >= 2
    /\ history[Len(history) - 1] = [role |-> "human", content |-> question]
    /\ history[Len(history)].role = "ai"

RequestsOfCalls ==
    \A c \in Callers :
        /\ calls[c].requests <= 2
        /\ calls[c].pc = "first" => calls[c].requests = 1
        /\ calls[c].pc = "retry" =>
               /\ calls[c].requests = 2
               /\ IsTooLong(calls[c].rejected)
               /\ ~IsNotFound(calls[c].rejected)
               /\ ~IsUnauthorized(calls[c].rejected)

HistoryOfCalls ==
    /\ \A c \in Callers :
           ChatEnds(c) =>
               \/ /\ processingState' = "error"
                  /\ conversationHistory' = conversationHistory
               \/ /\ processingState' = "idle"
                  /\ EndsWithPair(conversationHistory', calls[c].question)
    /\ (nChats' # nChats /\ pdfContent = <<>>) =>
           /\ conversationHistory' = conversationHistory
           /\ processingState' = "error"
           /\ \A c \in Callers : calls'[c].requests = calls[c].requests
    /\ conversationHistory' # conversationHistory =>
           \/ conversationHistory' = <<>>
           \/ \E c \in Callers : ChatEnds(c) /\ processingState' = "idle"

\* C16: a chat call issues at most two model requests, the second only after
\* the first failed with a too long / token / limit error that is neither a
\* 404 / not found nor a 401 / 403 error; the history gains the question and
\* the answer only when the call returns, and is as it was when the call
\* throws, which it does without any request when no PDF is loaded.
C16_AtMostTwoRequests == []RequestsOfCalls /\ [][HistoryOfCalls]_vars

\* A call waits for its retry while the history holds earlier turns
C16_Witness_RetryWithHistory ==
    \E c \in Callers :
        /\ calls[c].pc = "retry"
        /\ calls[c].requests = 2
        /\ conversationHistory # <<>>

(***************************************************************************)
(* C17: the lengths of the document and of its part in the prompts         *)
(***************************************************************************)
\* The part of a prompt between its heading and the question
DocumentPart(call) == SubSeq(call.prompt, 2, Len(call.prompt) - Len(call.question) - 2)

Normalized(content) ==
    \A i \in 1..Len(content) :
        IsSpace(content[i]) =>
            content[i] = " " /\ i > 1 /\ ~IsSpace(content[i - 1])

FirstDocumentPart(call) ==
    LET doc == DocumentPart(call)
        n == Min(Len(doc), maxContentLength)
    IN  /\ \/ Len(doc) <= maxContentLength
           \/ /\ Len(doc) = maxContentLength + 1
              /\ doc[Len(doc)] = "... [Content truncated due to length]"
        /\ ~call.overlapped => SubSeq(doc, 1, n) = SubSeq(pdfContent, 1, n)

RetryDocumentPart(call) ==
    LET doc == DocumentPart(call)
    IN  /\ Len(doc) - 1 <= retryContentLength
        /\ doc[Len(doc)] = "... [Content truncated]"
        /\ ~call.overlapped =>
               SubSeq(doc, 1, Len(doc) - 1) = SubSeq(pdfContent, 1, Len(doc) - 1)

Settled(status) == status \in {"complete", "error"}

ClaimedBatchSize == IF numPages > 100 THEN 5 ELSE IF numPages >= 51 THEN 10 ELSE 20

\* The last page of the batch that is running or was run last
BatchEnd == Min(batchStart + ClaimedBatchSize - 1, numPages)

C20_RetryEnds == retried ~> (~retried /\ ~isExtracting)

(***************************************************************************)
(* C21: handleDeleteNote and the confirmation dialog                       *)
(***************************************************************************)
\* The handleDeleteNote call in flight ends in this step
DeleteEnds == dashDelete.pc # "none" /\ dashDelete'.pc = "none"

HasNote(list, noteId) == \E i \in 1..Len(list) : list[i].id = noteId

\* What the call that ends leaves when the row delete failed, and when not
DeleteFailedStep ==
    /\ notes' = notes
    /\ deleteConfirmation' = deleteConfirmation
    /\ dashError' = <<"Failed to delete note. Please try again.">>

DeleteDoneStep ==
    /\ ~HasNote(notes', dashDelete.noteId)
    /\ deleteConfirmation' = NoNote

DeleteNoteStep ==
    /\ (dashDelete.pc = "none" /\ dashDelete'.pc # "none") =>
           /\ deleteConfirmation # NoNote
           /\ dashDelete'.noteId = deleteConfirmation
           /\ notes' = notes
           /\ deleteConfirmation' = deleteConfirmation
    /\ (dashDelete.pc = "deleteRow" /\ dashDelete'.pc = "removeFile") =>
           /\ ~HasNote(dbNotes', dashDelete.noteId)
           /\ notes' = notes
           /\ deleteConfirmation' = deleteConfirmation
    /\ DeleteEnds =>
           /\ HasNote(dbNotes', dashDelete.noteId) => DeleteFailedStep
           /\ (HasNote(dbNotes, dashDelete.noteId) /\ ~HasNote(dbNotes', dashDelete.noteId))
                  => DeleteDoneStep
           /\ dashDelete.pc = "removeFile" => DeleteDoneStep
           /\ DeleteFailedStep \/ DeleteDoneStep
    /\ (HasNote(notes, deleteConfirmation) /\ ~HasNote(notes', deleteConfirmation)) =>
           \/ DeleteEnds /\ ~HasNote(dbNotes', dashDelete.noteId)
           \/ fetching' < fetching

\* C21: handleDeleteNote is called with the id held in deleteConfirmation; the
\* call that ends after the row delete succeeded has removed the note from
\* the list and cleared deleteConfirmation, whether or not the stored file
\* could be removed; the call that ends because the row delete failed leaves
\* the list and deleteConfirmation as they are and sets the error message;
\* and the note of the dialog leaves the list in no other step of the handler.
C21_DeleteAfterRowDelete == [][DeleteNoteStep]_vars

\* Note 1 has been deleted although its file could not be removed
C21_Witness_FileKept ==
    /\ ~HasNote(notes, "1")
    /\ ~HasNote(dbNotes, "1")
    /\ Len(notes) = 2
    /\ \E f \in SeedFiles : f \in storageFiles /\ Includes(f, <<"1", ".">>)
    /\ Cardinality(storageFiles) = Cardinality(SeedFiles)
    /\ deleteConfirmation = NoNote
    /\ dashDelete.pc = "none"

(***************************************************************************)
(* C22: the tags of a note after a failed save                             *)
(***************************************************************************)
TagSet(list) == {list[i] : i \in 1..Len(list)}

\* C22: when handleSaveChanges has ended in failure, the tags the backend
\* holds for the note are those it held before the call, and they are the
\* tags of the note on the page.
C22_FailedSaveKeepsTags ==
    (lastSave.ran /\ lastSave.failedAt # "none") =>
        /\ TagSet(dbTags) = TagSet(lastSave.tagsBefore)
        /\ TagSet(dbTags) = TagSet(noteTags)

(***************************************************************************)
(* C23: the backend after a failed handleSubmit                            *)
(***************************************************************************)
\* The rows of notes that refer to the stored file
RowsOfFile(filePath) ==
    SelectSeq(dbNotes, LAMBDA row : row.file_url = getPublicUrl(filePath))

\* The note of the row has every one of the tags in note_tags
RowHasTags(row, selected) ==
    \A i \in 1..Len(selected) :
        \E j \in 1..Len(dbNoteTags) :
            dbNoteTags[j] = [note_id |-> row.id, tag |-> selected[i]]

\* C23: when handleSubmit has ended in failure, every stored file has a row
\* of notes that refers to it, and every row of notes written by the call
\* has the tags selected for it.
C23_FailedSubmitLeavesNothing ==
    (upSubmit.pc = "none" /\ LogHas(upSubmit.log, "catch")) =>
        /\ \A filePath \in storageFiles : RowsOfFile(filePath) # <<>>
        /\ \A i \in 1..Len(dbNotes) :
              dbNotes[i].file_url = getPublicUrl(upSubmit.filePath)
                  => RowHasTags(dbNotes[i], upSubmit.tags)
====
